---- MODULE Spec2Model ----
(***************************************************************************)
(* Game Boy Color emulator core: the LR35902 CPU (src/src/cpu.py), the     *)
(* memory unit with its timer and joypad (src/src/memory.py), the PPU mode *)
(* machine (src/src/ppu.py) and the emulator shell (src/src/emulator.py).  *)
(*                                                                         *)
(* The objects are records: cpu, mem, ppu and emu hold the fields of CPU,  *)
(* Memory, PPU and Emulator.  rom is the part of the cartridge image the   *)
(* program has read so far: a byte of the image is chosen the first time   *)
(* it is fetched and stays what it was, so every behaviour is the run of   *)
(* one fixed ROM image.  last records what the most recent call did and    *)
(* returned, hist what the behaviour has used of the model's bounds and    *)
(* whether a PPU step was ever skipped because the LCD was off.            *)
(***************************************************************************)
EXTENDS Integers, Sequences, FiniteSets, TLC

VARIABLES cpu, mem, rom, ppu, emu, last, hist

vars == <<cpu, mem, rom, ppu, emu, last, hist>>

----------------------------------------------------------------------------
(* Bounds of the model                                                     *)

\* instructions of the program in a behaviour of SpecIrq, SpecOps and Spec
MaxInstr == 2
\* instructions of the program in a behaviour of SpecFrame
MaxProg == 4
\* calls of run_frame in a behaviour of SpecFrame
MaxFrames == 1
\* words a behaviour may have on the stack at once
MaxDepth == 2
\* cycles after which a behaviour of Spec takes no further Emulator.step
MaxCycles == 40
\* Memory.write calls in a behaviour of SpecIo
MaxWrites == 2
\* scanlines after which a behaviour of SpecIo takes no further PPU.step
MaxLines == 3
\* calls in a behaviour of SpecTimer
MaxTimerCalls == 4
\* writes and button changes of a run of SpecMem
MaxMemWrites == 2
\* writes of a run of SpecRtc
MaxRtcWrites == 5
\* writes of a run of SpecRam
MaxRamWrites == 4
\* cycles after which a behaviour of SpecHalt takes no further Emulator.step
MaxHaltCycles == 141000
\* steps of a run of SpecHalt that find the CPU running or wake it
MaxHaltInstr == 4
\* calls of PPU.step with other than a line's cycles, register writes and
\* cycles of a run of SpecPpu
MaxPpuSteps == 2
MaxPpuWrites == 1
MaxPpuCycles == 71136
\* lines of a run of SpecScan
MaxScanLines == 10

----------------------------------------------------------------------------
(* Bit arithmetic on Python ints                                           *)

Pow2(n) == 2 ^ n

Bit(v, i) == (v \div Pow2(i)) % 2

RECURSIVE AndBits(_, _, _)
AndBits(x, y, n) ==
    IF n = 0 THEN 0
    ELSE AndBits(x, y, n - 1) + Bit(x, n - 1) * Bit(y, n - 1) * Pow2(n - 1)

RECURSIVE OrBits(_, _, _)
OrBits(x, y, n) ==
    IF n = 0 THEN 0
    ELSE OrBits(x, y, n - 1)
         + (IF Bit(x, n - 1) + Bit(y, n - 1) > 0 THEN Pow2(n - 1) ELSE 0)

\* the byte operations, tabulated
AndTable == [x \in 0 .. 255 |-> [y \in 0 .. 255 |-> AndBits(x, y, 8)]]
OrTable == [x \in 0 .. 255 |-> [y \in 0 .. 255 |-> OrBits(x, y, 8)]]

\* x & y for operands of up to 16 bits
And(x, y) == IF x < 256 /\ y < 256 THEN AndTable[x][y] ELSE AndBits(x, y, 16)

\* x | y for operands of up to 16 bits
Or(x, y) == IF x < 256 /\ y < 256 THEN OrTable[x][y] ELSE OrBits(x, y, 16)

\* x & ~y for operands of up to 16 bits
AndNot(x, y) == x - And(x, y)

----------------------------------------------------------------------------
(* Memory (src/src/memory.py)                                              *)

\* the IO registers the model keeps (offsets from 0xFF00); the others of
\* Memory.io are never touched by the programs the model runs
IoRegs ==
    {\h04, \h05, \h06, \h07, \h0F, \h40, \h41, \h44, \h45, \h4A, \h4B, \h4D,
     \h4F, \h51, \h52, \h53, \h54, \h55, \h70}

\* Memory._init_io: the boot values of the kept registers
InitIo(cgb) ==
    [r \in IoRegs |->
        CASE r = \h04 -> \hAB
          [] r = \h05 -> \h00
          [] r = \h06 -> \h00
          [] r = \h07 -> \hF8
          [] r = \h0F -> \hE1
          [] r = \h40 -> \h91
          [] r = \h41 -> \h85
          [] r = \h44 -> \h00
          [] r = \h45 -> \h00
          [] r = \h4A -> \h00
          [] r = \h4B -> \h00
          [] r = \h4D -> IF cgb THEN \h7E ELSE \h00
          [] r = \h4F -> IF cgb THEN \hFE ELSE \h00
          [] r \in \h51 .. \h55 -> IF cgb THEN \hFF ELSE \h00
          [] r = \h70 -> IF cgb THEN \hF8 ELSE \h00]

\* Memory.__init__ followed by Memory.load_rom of a 32 KiB cartridge without
\* bank controller whose header byte 0x143 has bit 7 equal to cgb
NewMemory(cgb) ==
    [io |-> InitIo(cgb),
     ie |-> 0,
     hram |-> [a \in {} |-> 0],
     vram |-> [a \in {} |-> 0],
     vram_bank |-> 0,
     wram |-> [a \in {} |-> 0],
     wram_bank |-> 1,
     oam |-> [a \in {} |-> 0],
     dma_source |-> 0,
     dma_dest |-> 0,
     dma_length |-> 0,
     hdma_active |-> FALSE,
     hdma_mode |-> 0,
     cgb_mode |-> cgb,
     joypad_select |-> \h30,
     joypad_state |-> \hFF,
     div_counter |-> 0,
     tima_counter |-> 0]

InRom(addr) == addr < \h8000
InVram(addr) == addr >= \h8000 /\ addr < \hA000
InHram(addr) == addr >= \hFF80 /\ addr < \hFFFF
InIo(addr) == addr >= \hFF00 /\ addr < \hFF80

\* the addresses whose storage the model keeps
Modelled(addr) ==
    \/ InRom(addr)
    \/ InVram(addr)
    \/ addr >= \hFEA0 /\ addr < \hFF00
    \/ InIo(addr) /\ (addr - \hFF00) \in IoRegs \cup {0}
    \/ InHram(addr)
    \/ addr = \hFFFF

\* numpy array hram, kept as the map of its nonzero bytes
HramGet(h, addr) == IF addr \in DOMAIN h THEN h[addr] ELSE 0

HramSet(h, addr, value) ==
    [a \in (IF value = 0 THEN DOMAIN h \ {addr} ELSE DOMAIN h \cup {addr}) |->
        IF a = addr THEN value ELSE h[a]]

\* numpy array vram (two banks), kept as the map of its nonzero bytes:
\* vram[bank][off]
VramGet(v, bank, off) == IF <<bank, off>> \in DOMAIN v THEN v[<<bank, off>>] ELSE 0

VramSet(v, bank, off, value) ==
    [a \in (IF value = 0 THEN DOMAIN v \ {<<bank, off>>}
            ELSE DOMAIN v \cup {<<bank, off>>}) |->
        IF a = <<bank, off>> THEN value ELSE v[a]]

\* numpy array wram (eight banks), kept as the map of its nonzero bytes:
\* wram[bank][off]
WramGet(w, bank, off) == IF <<bank, off>> \in DOMAIN w THEN w[<<bank, off>>] ELSE 0

WramSet(w, bank, off, value) ==
    [a \in (IF value = 0 THEN DOMAIN w \ {<<bank, off>>}
            ELSE DOMAIN w \cup {<<bank, off>>}) |->
        IF a = <<bank, off>> THEN value ELSE w[a]]

\* numpy array oam, kept as the map of its nonzero bytes
OamGet(o, i) == IF i \in DOMAIN o THEN o[i] ELSE 0

OamSet(o, i, value) ==
    [a \in (IF value = 0 THEN DOMAIN o \ {i} ELSE DOMAIN o \cup {i}) |->
        IF a = i THEN value ELSE o[a]]

\* a read that takes the direction keys from the low nibble of the state
\* and the buttons from the high one
ReadJoypadSwapped(m) ==
    LET r0 == Or(m.joypad_select, \h0F)
        r1 == IF And(m.joypad_select, \h10) = 0
              THEN And(r0, Or(And(m.joypad_state, \h0F), \hF0)) ELSE r0
        r2 == IF And(m.joypad_select, \h20) = 0
              THEN And(r1, Or(m.joypad_state \div 16, \hF0)) ELSE r1
    IN  r2

\* Memory._read_joypad
ReadJoypad(m) ==
    LET r0 == Or(m.joypad_select, \h0F)
        r1 == IF And(m.joypad_select, \h10) = 0
              THEN And(r0, Or(m.joypad_state \div 16, \hF0)) ELSE r0
        r2 == IF And(m.joypad_select, \h20) = 0
              THEN And(r1, Or(And(m.joypad_state, \h0F), \hF0)) ELSE r1
    IN  r2

\* Memory._read_io for the kept registers
ReadIo(m, addr) ==
    LET reg == And(addr, \h7F)
    IN  IF reg = 0 THEN ReadJoypad(m) ELSE m.io[reg]

\* MBC.read_rom of the 32 KiB image: r is the image as far as it is known
ReadRom(r, addr) == r[addr]

\* Memory.read, for an address whose byte is known; the cartridge has no
\* bank controller, so its RAM is never enabled
RECURSIVE Read(_, _, _)
Read(m, r, a) ==
    LET addr == a % 65536
    IN  IF addr < \h8000 THEN ReadRom(r, addr)
        ELSE IF addr < \hA000 THEN VramGet(m.vram, m.vram_bank, addr - \h8000)
        ELSE IF addr < \hC000 THEN \hFF
        ELSE IF addr < \hD000 THEN WramGet(m.wram, 0, addr - \hC000)
        ELSE IF addr < \hE000 THEN WramGet(m.wram, m.wram_bank, addr - \hD000)
        ELSE IF addr < \hFE00 THEN Read(m, r, addr - \h2000)
        ELSE IF addr < \hFEA0 THEN OamGet(m.oam, addr - \hFE00)
        ELSE IF addr < \hFF00 THEN \hFF
        ELSE IF addr < \hFF80 THEN ReadIo(m, addr)
        ELSE IF addr < \hFFFF THEN HramGet(m.hram, addr)
        ELSE m.ie

\* Memory.read for an address outside the cartridge ROM
ReadRam(m, a) == Read(m, <<>>, a)

\* the copy loops of Memory._start_hdma and Memory.do_hdma_transfer: bytes
\* i .. n-1 of the block, each read after the bytes before it are written
RECURSIVE CopyLoop(_, _, _, _, _)
CopyLoop(m, src, dst, i, n) ==
    IF i >= n THEN m
    ELSE CopyLoop([m EXCEPT !.vram = VramSet(@, m.vram_bank, (dst + i) % \h2000,
                                             ReadRam(m, src + i))],
                  src, dst, i + 1, n)

\* Memory._start_hdma, after the test for a cancel
StartTransfer(m, value, source, dest, length) ==
    IF And(value, \h80) # 0
    THEN [m EXCEPT !.hdma_active = TRUE, !.hdma_mode = 1,
                   !.dma_source = source, !.dma_dest = dest,
                   !.dma_length = length,
                   !.io = [@ EXCEPT ![\h55] = And(value, \h7F)]]
    ELSE [CopyLoop(m, source, dest, 0, length) EXCEPT
              !.io = [@ EXCEPT ![\h55] = \hFF]]

\* Memory._start_hdma
StartHdma(m, value) ==
    IF m.hdma_active /\ And(value, \h80) = 0
    THEN [m EXCEPT !.hdma_active = FALSE,
                   !.io = [@ EXCEPT ![\h55] = Or(value, \h80)]]
    ELSE StartTransfer(m, value,
                       And(m.io[\h51] * 256 + m.io[\h52], \hFFF0),
                       And(m.io[\h53] * 256 + m.io[\h54], \h1FF0),
                       (And(value, \h7F) + 1) * 16)

\* an end of block that leaves HDMA5 as it was while blocks remain
EndBlockStale(m) ==
    IF m.dma_length - 16 <= 0
    THEN [m EXCEPT !.dma_source = @ + 16, !.dma_dest = @ + 16,
                   !.dma_length = @ - 16, !.hdma_active = FALSE,
                   !.io = [@ EXCEPT ![\h55] = \hFF]]
    ELSE [m EXCEPT !.dma_source = @ + 16, !.dma_dest = @ + 16,
                   !.dma_length = @ - 16]

\* Memory.do_hdma_transfer after the block is copied
EndBlock(m) ==
    IF m.dma_length - 16 <= 0
    THEN [m EXCEPT !.dma_source = @ + 16, !.dma_dest = @ + 16,
                   !.dma_length = @ - 16, !.hdma_active = FALSE,
                   !.io = [@ EXCEPT ![\h55] = \hFF]]
    ELSE [m EXCEPT !.dma_source = @ + 16, !.dma_dest = @ + 16,
                   !.dma_length = @ - 16,
                   !.io = [@ EXCEPT ![\h55] =
                               And(((m.dma_length - 16) \div 16) - 1, \h7F)]]

\* a block transfer that copies 8 bytes
DoHdmaTransferHalf(m) ==
    IF ~m.hdma_active THEN m
    ELSE EndBlock(CopyLoop(m, m.dma_source, m.dma_dest, 0, 8))

\* Memory.do_hdma_transfer
DoHdmaTransfer(m) ==
    IF ~m.hdma_active THEN m
    ELSE EndBlock(CopyLoop(m, m.dma_source, m.dma_dest, 0, 16))

\* a bank select that takes the low three bits as they are
WramBankRaw(value) == And(value, \h07)

\* the WRAM bank Memory._write_io selects for a value written to 0xFF70
WramBankOf(value) == IF And(value, \h07) = 0 THEN 1 ELSE And(value, \h07)

\* Memory._write_io for the kept registers
WriteIo(m, addr, value) ==
    LET reg == And(addr, \h7F)
    IN  IF reg = 0 THEN [m EXCEPT !.joypad_select = And(value, \h30)]
        ELSE IF reg = \h04
             THEN [m EXCEPT !.io = [@ EXCEPT ![\h04] = 0], !.div_counter = 0]
        ELSE IF reg = \h4F /\ m.cgb_mode
             THEN [m EXCEPT !.vram_bank = And(value, \h01),
                            !.io = [@ EXCEPT ![\h4F] = Or(value, \hFE)]]
        ELSE IF reg = \h70 /\ m.cgb_mode
             THEN [m EXCEPT !.wram_bank = WramBankOf(value),
                            !.io = [@ EXCEPT ![\h70] = Or(value, \hF8)]]
        ELSE IF reg = \h55 /\ m.cgb_mode THEN StartHdma(m, value)
        ELSE [m EXCEPT !.io = [@ EXCEPT ![reg] = value]]

\* a write that drops the stores to the echo area
WriteNoEcho(m, a, v) ==
    LET addr == a % 65536
        value == v % 256
    IN  IF addr < \h8000 THEN m
        ELSE IF addr < \hA000
             THEN [m EXCEPT !.vram = VramSet(@, m.vram_bank, addr - \h8000, value)]
        ELSE IF addr < \hC000 THEN m
        ELSE IF addr < \hD000
             THEN [m EXCEPT !.wram = WramSet(@, 0, addr - \hC000, value)]
        ELSE IF addr < \hE000
             THEN [m EXCEPT !.wram = WramSet(@, m.wram_bank, addr - \hD000, value)]
        ELSE IF addr < \hFE00 THEN m
        ELSE IF addr < \hFEA0
             THEN [m EXCEPT !.oam = OamSet(@, addr - \hFE00, value)]
        ELSE IF addr < \hFF00 THEN m
        ELSE IF addr < \hFF80 THEN WriteIo(m, addr, value)
        ELSE IF addr < \hFFFF THEN [m EXCEPT !.hram = HramSet(@, addr, value)]
        ELSE [m EXCEPT !.ie = value]

\* Memory.write, as far as it changes the memory: the writes below 0x8000
\* and in 0xA000-0xBFFF go to the bank controller
RECURSIVE Write(_, _, _)
Write(m, a, v) ==
    LET addr == a % 65536
        value == v % 256
    IN  IF addr < \h8000 THEN m
        ELSE IF addr < \hA000
             THEN [m EXCEPT !.vram = VramSet(@, m.vram_bank, addr - \h8000, value)]
        ELSE IF addr < \hC000 THEN m
        ELSE IF addr < \hD000
             THEN [m EXCEPT !.wram = WramSet(@, 0, addr - \hC000, value)]
        ELSE IF addr < \hE000
             THEN [m EXCEPT !.wram = WramSet(@, m.wram_bank, addr - \hD000, value)]
        ELSE IF addr < \hFE00 THEN Write(m, addr - \h2000, value)
        ELSE IF addr < \hFEA0
             THEN [m EXCEPT !.oam = OamSet(@, addr - \hFE00, value)]
        ELSE IF addr < \hFF00 THEN m
        ELSE IF addr < \hFF80 THEN WriteIo(m, addr, value)
        ELSE IF addr < \hFFFF THEN [m EXCEPT !.hram = HramSet(@, addr, value)]
        ELSE [m EXCEPT !.ie = value]

\* Memory.set_button
SetButton(m, button, pressed) ==
    IF pressed
    THEN [m EXCEPT !.joypad_state = AndNot(@, Pow2(button))]
    ELSE [m EXCEPT !.joypad_state = Or(@, Pow2(button))]

\* the TIMA loop of Memory.update_timer: returns the memory and whether TIMA
\* overflowed
RECURSIVE TimaLoop(_, _, _)
TimaLoop(m, divider, ovf) ==
    IF m.tima_counter >= divider
    THEN LET tima == (m.io[\h05] + 1) % 256
             m1 == [m EXCEPT !.tima_counter = @ - divider,
                             !.io = [@ EXCEPT ![\h05] = tima]]
             m2 == IF tima = 0
                   THEN [m1 EXCEPT !.io = [@ EXCEPT ![\h05] = m1.io[\h06],
                                                    ![\h0F] = Or(m1.io[\h0F], \h04)]]
                   ELSE m1
         IN  TimaLoop(m2, divider, ovf \/ tima = 0)
    ELSE [mem |-> m, overflow |-> ovf]

\* a DIV loop that leaves a full count of 256 standing
RECURSIVE DivLoopLate(_)
DivLoopLate(m) ==
    IF m.div_counter > 256
    THEN DivLoopLate([m EXCEPT !.div_counter = @ - 256,
                               !.io = [@ EXCEPT ![\h04] = (@ + 1) % 256]])
    ELSE m

\* the DIV loop of Memory.update_timer
RECURSIVE DivLoop(_)
DivLoop(m) ==
    IF m.div_counter >= 256
    THEN DivLoop([m EXCEPT !.div_counter = @ - 256,
                           !.io = [@ EXCEPT ![\h04] = (@ + 1) % 256]])
    ELSE m

\* a frequency table with two entries exchanged
FreqDividersSwapped == <<1024, 64, 16, 256>>

FreqDividers == <<1024, 16, 64, 256>>

\* Memory.update_timer
UpdateTimer(m, cycles) ==
    LET m1 == DivLoop([m EXCEPT !.div_counter = @ + cycles])
        tac == m1.io[\h07]
    IN  IF And(tac, \h04) # 0
        THEN TimaLoop([m1 EXCEPT !.tima_counter = @ + cycles],
                      FreqDividers[And(tac, \h03) + 1], FALSE)
        ELSE [mem |-> m1, overflow |-> FALSE]

----------------------------------------------------------------------------
(* CPU (src/src/cpu.py)                                                    *)

FLAG_Z == 128
FLAG_N == 64
FLAG_H == 32
FLAG_C == 16

\* CPU.__init__ (total_cycles, a running sum nothing reads, is left out)
NewCpuDmg ==
    [a |-> \h01, f |-> \hB0, b |-> \h00, c |-> \h13, d |-> \h00, e |-> \hD8,
     h |-> \h01, l |-> \h4D, sp |-> \hFFFE, pc |-> \h0100,
     halted |-> FALSE, stopped |-> FALSE, ime |-> FALSE,
     ime_scheduled |-> FALSE, cycles |-> 0, double_speed |-> FALSE]

\* CPU.init_gbc_mode
InitGbcMode(c) ==
    [c EXCEPT !.a = \h11, !.f = \h80, !.b = \h00, !.c = \h00, !.d = \hFF,
              !.e = \h56, !.h = \h00, !.l = \h0D]

\* the CPU the emulator builds: Emulator.__init__ / Emulator.reset, and
\* Emulator.load_rom for a cartridge with the CGB flag
NewCpu(cgb) == IF cgb THEN InitGbcMode(NewCpuDmg) ELSE NewCpuDmg

\* a setter that keeps the low nibble of F
AfSetKeepNibble(c, value) ==
    [c EXCEPT !.a = (value \div 256) % 256, !.f = value % 256]

\* CPU.af (setter)
AfSet(c, value) ==
    [c EXCEPT !.a = (value \div 256) % 256, !.f = And(value, \hF0)]

\* CPU.set_flag
SetFlag(c, flag, value) ==
    LET f1 == IF value THEN Or(c.f, flag) ELSE AndNot(c.f, flag)
    IN  [c EXCEPT !.f = And(f1, \hF0)]

\* a flag assignment of a handler: 1 sets the flag, 0 clears it, 2 is no
\* assignment
Keep == 2
Fl(cond) == IF cond THEN 1 ELSE 0
SetFlagOpt(c, flag, v) == IF v = Keep THEN c ELSE SetFlag(c, flag, v = 1)

\* the flag assignments of a handler, in the order Z, N, H, C
SetFlags(c, z, n, h, cy) ==
    SetFlagOpt(SetFlagOpt(SetFlagOpt(SetFlagOpt(c, FLAG_Z, z), FLAG_N, n),
                          FLAG_H, h), FLAG_C, cy)

\* the register operands of the opcode tables, by index
Regs == <<"b", "c", "d", "e", "h", "l", "(hl)", "a">>

\* CPU._get_r8
GetR8(c, reg) == c[reg]

\* CPU._set_r8 (the register setter, cpu.py 540 and again 991)
SetR8(c, reg, value) == [c EXCEPT ![reg] = value % 256]

\* a machine state: the CPU and the memory it works on
St(c, m) == [cpu |-> c, mem |-> m]

\* CPU.write_word
WriteWord(m, addr, value) ==
    Write(Write(m, addr, value % 256), (addr + 1) % 65536, (value \div 256) % 256)

\* CPU.read_word
ReadWord(m, r, addr) ==
    Read(m, r, (addr + 1) % 65536) * 256 + Read(m, r, addr)

\* CPU.push_word
PushWord(s, value) ==
    LET sp1 == (s.cpu.sp - 2 + 65536) % 65536
    IN  St([s.cpu EXCEPT !.sp = sp1], WriteWord(s.mem, sp1, value))

\* the interrupt sources in priority order: (bit, vector)
IntTable == <<<<0, \h40>>, <<1, \h48>>, <<2, \h50>>, <<3, \h58>>, <<4, \h60>>>>

\* a search that takes the highest-numbered pending bit
HighestPendingIdx(pending, i) ==
    CHOOSE k \in 1 .. 5 :
        /\ Bit(pending, IntTable[k][1]) = 1
        /\ \A j \in 1 .. 5 : Bit(pending, IntTable[j][1]) = 1 => j <= k

\* the for loop of CPU._handle_interrupts: the first entry of the table, from
\* index i on, whose bit is pending (0 when there is none)
RECURSIVE FirstPendingIdx(_, _)
FirstPendingIdx(pending, i) ==
    IF i > 5 THEN 0
    ELSE IF Bit(pending, IntTable[i][1]) = 1 THEN i
    ELSE FirstPendingIdx(pending, i + 1)

\* IE & IF & 0x1F as CPU.step and CPU._handle_interrupts read it
Pending(m) == And(And(m.ie, m.io[\h0F]), \h1F)

\* a machine state with PC set
PcSet(s, pc) == St([s.cpu EXCEPT !.pc = pc], s.mem)

\* the body of the for loop of CPU._handle_interrupts for the table entry k
Dispatch(s, k) ==
    PcSet(PushWord(St([s.cpu EXCEPT !.ime = FALSE],
                      Write(s.mem, \hFF0F,
                            AndNot(s.mem.io[\h0F], Pow2(IntTable[k][1])))),
                   s.cpu.pc),
          IntTable[k][2])

\* a dispatch that leaves the halted flag as it was
HandleInterruptsAtStayHalted(s, k) ==
    IF k = 0 THEN [st |-> s, ret |-> 0]
    ELSE [st |-> Dispatch(s, k), ret |-> 20]

\* CPU._handle_interrupts once something is pending: halted is cleared, then
\* the for loop runs, k being the entry it stops at
HandleInterruptsAt(s, k) ==
    IF k = 0 THEN [st |-> St([s.cpu EXCEPT !.halted = FALSE], s.mem), ret |-> 0]
    ELSE [st |-> Dispatch(St([s.cpu EXCEPT !.halted = FALSE], s.mem), k), ret |-> 20]

\* CPU._handle_interrupts: the state after it and the cycles it returns
HandleInterrupts(s) ==
    IF Pending(s.mem) = 0 THEN [st |-> s, ret |-> 0]
    ELSE HandleInterruptsAt(s, FirstPendingIdx(Pending(s.mem), 1))

\* CPU.request_interrupt
RequestInterrupt(m, bit) == Write(m, \hFF0F, Or(m.io[\h0F], Pow2(bit)))

\* the opcode bytes CPU._build_opcode_table leaves without a handler (0xCB,
\* also left None, is taken by the prefix test of CPU.step before the table)
UndefinedOpcodes ==
    {\hD3, \hDB, \hDD, \hE3, \hE4, \hEB, \hEC, \hED, \hF4, \hFC, \hFD}

\* the bytes of an instruction of the model, opcode included
InstrLen(op) == IF op \in {\h10, \h3E, \hE0, \h18, \hCB, \hC6} THEN 2 ELSE 1

\* an instruction's outcome: the state, and the exception it raised if any
Done(s) == [st |-> s, err |-> "none"]
Raised(s, e) == [st |-> s, err |-> e]

Cyc(s, n) == St([s.cpu EXCEPT !.cycles = n], s.mem)

\* a STOP that switches the speed and leaves KEY1 as it is
StopKeepArm(s) ==
    IF And(Read(s.mem, <<>>, \hFF4D), \h01) # 0
    THEN Cyc(St([s.cpu EXCEPT !.double_speed = ~s.cpu.double_speed], s.mem), 4)
    ELSE Cyc(St([s.cpu EXCEPT !.stopped = TRUE], s.mem), 4)

\* CPU._stop, after its fetch_byte
Stop(s) ==
    LET key1 == Read(s.mem, <<>>, \hFF4D)
    IN  IF And(key1, \h01) # 0
        THEN LET ds == ~s.cpu.double_speed
             IN  Cyc(St([s.cpu EXCEPT !.double_speed = ds],
                        Write(s.mem, \hFF4D, IF ds THEN \h80 ELSE \h00)), 4)
        ELSE Cyc(St([s.cpu EXCEPT !.stopped = TRUE], s.mem), 4)

\* CPU._inc_r8
IncR8(s, reg) ==
    LET value == GetR8(s.cpu, reg)
        result == (value + 1) % 256
        c1 == SetR8(s.cpu, reg, result)
    IN  Cyc(St(SetFlags(c1, Fl(result = 0), 0, Fl(And(value, \h0F) = \h0F), Keep),
               s.mem), 4)

\* CPU._pop_af, the pop_word read done with the known image r
PopAf(s, r) ==
    LET value == ReadWord(s.mem, r, s.cpu.sp)
        c1 == [s.cpu EXCEPT !.sp = (@ + 2) % 65536]
    IN  Cyc(St(AfSet(c1, value), s.mem), 12)

\* CPU._jr
Jr(s, b1) ==
    LET offset == IF b1 > 127 THEN b1 - 256 ELSE b1
    IN  Cyc(St([s.cpu EXCEPT !.pc = (@ + offset + 65536) % 65536], s.mem), 12)

\* CPU._ld_r8_n, after its fetch_byte gave value
LdR8N(s, reg, value) == Cyc(St(SetR8(s.cpu, reg, value), s.mem), 8)

\* CPU._scf
Scf(s) == Cyc(St(SetFlags(s.cpu, Keep, 0, 0, 1), s.mem), 4)

\* CPU.get_flag
GetFlag(c, flag) == And(c.f, flag) # 0

\* CPU._add_a
AddA(c, value) ==
    SetFlags([c EXCEPT !.a = (c.a + value) % 256],
             Fl((c.a + value) % 256 = 0), 0,
             Fl(And(c.a, \h0F) + And(value, \h0F) > \h0F),
             Fl(c.a + value > \hFF))

\* CPU._alu_n with _add_a, after its fetch_byte of value
AddAN(s, value) == Cyc(St(AddA(s.cpu, value), s.mem), 8)

\* an adjustment of the high digit that leaves the carry flag as it is
DaaHighQuiet(c) ==
    IF GetFlag(c, FLAG_C) \/ c.a > \h99
    THEN [c EXCEPT !.a = (c.a + \h60) % 256]
    ELSE c

\* CPU._daa after an addition: the adjustment of the high digit
DaaHigh(c) ==
    IF GetFlag(c, FLAG_C) \/ c.a > \h99
    THEN SetFlag([c EXCEPT !.a = (c.a + \h60) % 256], FLAG_C, TRUE)
    ELSE c

\* CPU._daa after an addition: the adjustment of the low digit
DaaLow(c) ==
    IF GetFlag(c, FLAG_H) \/ And(c.a, \h0F) > \h09
    THEN [c EXCEPT !.a = (c.a + \h06) % 256]
    ELSE c

\* CPU._daa after a subtraction
DaaSubHigh(c) ==
    IF GetFlag(c, FLAG_C) THEN [c EXCEPT !.a = (c.a - \h60 + 256) % 256] ELSE c

DaaSubLow(c) ==
    IF GetFlag(c, FLAG_H) THEN [c EXCEPT !.a = (c.a - \h06 + 256) % 256] ELSE c

\* the flag assignments at the end of CPU._daa
DaaFlags(c) == SetFlags(c, Fl(c.a = 0), Keep, 0, Keep)

\* CPU._daa
Daa(s) ==
    Cyc(St(DaaFlags(IF ~GetFlag(s.cpu, FLAG_N) THEN DaaLow(DaaHigh(s.cpu))
                    ELSE DaaSubLow(DaaSubHigh(s.cpu))), s.mem), 4)

\* CPU._ldh_n_a, after its fetch_byte gave n
LdhNA(s, n) == Cyc(St(s.cpu, Write(s.mem, \hFF00 + n, s.cpu.a)), 12)

\* CPU._res_r8
ResR8(s, bit, reg) ==
    Cyc(St(SetR8(s.cpu, reg, AndNot(GetR8(s.cpu, reg), Pow2(bit))), s.mem), 8)

\* CPU._bit_r8
BitR8(s, bit, reg) ==
    Cyc(St(SetFlags(s.cpu, Fl(Bit(GetR8(s.cpu, reg), bit) = 0), 0, 1, Keep),
           s.mem), 8)

\* the cb_opcodes entry of a BIT, RES or SET with a register operand, run
\* after both bytes are fetched.  For SET the table calls
\* self._set_r8(bit, reg), which is the register setter _set_r8(reg, value)
\* with reg = bit and value = the register's name: the value & 0xFF in it
\* raises TypeError before anything is stored
ExecCb(s, cb) ==
    LET bit == (cb \div 8) % 8
        reg == Regs[(cb % 8) + 1]
    IN  IF cb >= \hC0 THEN Raised(s, "TypeError")
        ELSE IF cb >= \h80 THEN Done(ResR8(s, bit, reg))
        ELSE Done(BitR8(s, bit, reg))

\* CPU.step for an opcode whose table entry is None: the RuntimeError
ExecUndefined(s, op) == Raised(s, "RuntimeError")

\* CPU._ei
Ei(s) == Cyc(St([s.cpu EXCEPT !.ime_scheduled = TRUE], s.mem), 4)

\* CPU._di
Di(s) == Cyc(St([s.cpu EXCEPT !.ime = FALSE], s.mem), 4)

\* CPU._halt
Halt(s) == Cyc(St([s.cpu EXCEPT !.halted = TRUE], s.mem), 4)

\* the handler of opcode op, run on the state s0 in which the opcode byte has
\* been fetched; b1 is the byte after it, r the known image
Exec(s0, r, op, b1) ==
    CASE op = \h00 -> Done(Cyc(s0, 4))
      [] op = \h76 -> Done(Halt(s0))
      [] op = \h10 -> Done(Stop(PcSet(s0, (s0.cpu.pc + 1) % 65536)))
      [] op = \hF3 -> Done(Di(s0))
      [] op = \hFB -> Done(Ei(s0))
      [] op = \hCB -> ExecCb(PcSet(s0, (s0.cpu.pc + 1) % 65536), b1)
      [] op \in UndefinedOpcodes -> ExecUndefined(s0, op)
      [] op \in {\h04, \h0C, \h14, \h1C, \h24, \h2C, \h3C} ->
            Done(IncR8(s0, Regs[((op - 4) \div 8) + 1]))
      [] op = \h3E -> Done(LdR8N(PcSet(s0, (s0.cpu.pc + 1) % 65536), "a", b1))
      [] op = \h37 -> Done(Scf(s0))
      [] op = \hE0 -> Done(LdhNA(PcSet(s0, (s0.cpu.pc + 1) % 65536), b1))
      [] op = \h18 -> Done(Jr(PcSet(s0, (s0.cpu.pc + 1) % 65536), b1))
      [] op = \hF1 -> Done(PopAf(s0, r))
      [] op = \hC6 -> Done(AddAN(PcSet(s0, (s0.cpu.pc + 1) % 65536), b1))
      [] op = \h27 -> Done(Daa(s0))

\* the opcodes Exec models
Modelled_Opcodes ==
    {\h00, \h76, \h10, \hF3, \hFB, \hCB, \h04, \h0C, \h14, \h1C, \h24, \h2C, \h3C,
     \h3E, \h37, \hE0, \h18, \hF1, \hC6, \h27} \cup UndefinedOpcodes

\* the "scheduled IME enable" lines of CPU.step, after cycles is zeroed
Promote(c) ==
    [c EXCEPT !.cycles = 0,
              !.ime = IF c.ime_scheduled THEN TRUE ELSE @,
              !.ime_scheduled = FALSE]

\* the "Handle interrupts" lines of CPU.step
StepInterrupts(s) ==
    IF s.cpu.ime THEN HandleInterrupts(s) ELSE [st |-> s, ret |-> 0]

\* HALT and STOP lines on which a halted CPU stays halted whatever is
\* pending
HaltStopNoWake(hi) ==
    IF hi.ret > 0 THEN [st |-> hi.st, ret |-> hi.ret, kind |-> "dispatch"]
    ELSE IF hi.st.cpu.halted THEN [st |-> hi.st, ret |-> 4, kind |-> "halt"]
    ELSE IF hi.st.cpu.stopped THEN [st |-> hi.st, ret |-> 4, kind |-> "stop"]
    ELSE [st |-> hi.st, ret |-> 0, kind |-> "fetch"]

\* the return after a dispatch and the "Handle HALT" and "Handle STOP" lines
\* of CPU.step, hi being what the interrupt lines left.  kind "fetch" says
\* the step goes on to fetch an opcode
HaltStop(hi) ==
    IF hi.ret > 0 THEN [st |-> hi.st, ret |-> hi.ret, kind |-> "dispatch"]
    ELSE IF hi.st.cpu.halted /\ Pending(hi.st.mem) = 0
    THEN [st |-> hi.st, ret |-> 4, kind |-> "halt"]
    ELSE IF hi.st.cpu.stopped
    THEN [st |-> St([hi.st.cpu EXCEPT !.halted = FALSE], hi.st.mem),
          ret |-> 4, kind |-> "stop"]
    ELSE [st |-> St([hi.st.cpu EXCEPT !.halted = FALSE], hi.st.mem),
          ret |-> 0, kind |-> "fetch"]

\* CPU.step up to its opcode fetch: the scheduled IME, the interrupt
\* dispatch, HALT and STOP
StepPrefix(s) == HaltStop(StepInterrupts(St(Promote(s.cpu), s.mem)))

\* what a call returned or raised, and what kind of step it was; at is the
\* address of the opcode an executing step fetched
Outcome(s, ret, err, kind, op, at) ==
    [st |-> s, ret |-> ret, err |-> err, kind |-> kind, opcode |-> op, at |-> at]

\* what CPU.step returns or raises once the handler of the opcode at
\* address at has run and left x
ExecOutcome(x, opcode, at) ==
    Outcome(x.st, IF x.err = "none" THEN x.st.cpu.cycles ELSE 0, x.err, "exec",
            opcode, at)

\* the fetch and the table dispatch of CPU.step, from the state p.st: b1 is
\* the byte after the opcode when the handler fetches one
FetchExec(p, r, op, b1) ==
    ExecOutcome(Exec(PcSet(p.st, (p.st.cpu.pc + 1) % 65536), r, op, b1),
                IF op = \hCB THEN \hCB00 + b1 ELSE op, p.st.cpu.pc)

FetchAt(p, r, op) ==
    FetchExec(p, r, op,
              IF InstrLen(op) = 2 THEN Read(p.st.mem, r, p.st.cpu.pc + 1) ELSE 0)

\* CPU.step after the lines of StepPrefix
CpuStepFrom(p, r) ==
    IF p.kind # "fetch" THEN Outcome(p.st, p.ret, "none", p.kind, -1, -1)
    ELSE FetchAt(p, r, Read(p.st.mem, r, p.st.cpu.pc))

\* CPU.step on the image r (which holds the bytes the step fetches)
CpuStep(s, r) == CpuStepFrom(StepPrefix(s), r)

----------------------------------------------------------------------------
(* PPU (src/src/ppu.py): the mode machine and the sprite search.  The      *)
(* pixel work of _render_scanline writes the framebuffer only, apart from  *)
(* the window line counter, which is kept.                                 *)

MODE_HBLANK == 0
MODE_VBLANK == 1
MODE_OAM == 2
MODE_TRANSFER == 3

CYCLES_OAM == 80
CYCLES_TRANSFER == 172
CYCLES_HBLANK == 204
CYCLES_SCANLINE == 456
SCANLINES_VISIBLE == 144
SCANLINES_TOTAL == 154

\* PPU.__init__
NewPpu == [mode |-> MODE_OAM, cycles |-> 0, ly |-> 0, window_line |-> 0,
           frame_count |-> 0, sprite_buffer |-> <<>>]

\* a PPU and the memory whose registers it writes
Pm(p, m) == [ppu |-> p, mem |-> m]

\* PPU.lcd_enabled
LcdEnabled(m) == And(m.io[\h40], \h80) # 0

\* mode lengths with a Transfer four cycles short
ModeCyclesShort(p) ==
    IF p.mode = MODE_OAM THEN CYCLES_OAM
    ELSE IF p.mode = MODE_TRANSFER THEN CYCLES_TRANSFER - 4
    ELSE IF p.mode = MODE_HBLANK THEN CYCLES_HBLANK
    ELSE CYCLES_SCANLINE

\* PPU._mode_cycles
ModeCycles(p) ==
    IF p.mode = MODE_OAM THEN CYCLES_OAM
    ELSE IF p.mode = MODE_TRANSFER THEN CYCLES_TRANSFER
    ELSE IF p.mode = MODE_HBLANK THEN CYCLES_HBLANK
    ELSE CYCLES_SCANLINE

\* PPU._update_stat
UpdateStat(x) ==
    Pm(x.ppu, [x.mem EXCEPT !.io = [@ EXCEPT ![\h41] = Or(And(@, \hFC), x.ppu.mode)]])

\* PPU._check_lyc on a coincidence, after the flag is set
LycHit(x) == [st |-> x, irq |-> IF And(x.mem.io[\h41], \h40) # 0 THEN 2 ELSE 0]

\* PPU._check_lyc: the state and the interrupt bits it returns
CheckLyc(x) ==
    IF x.ppu.ly = x.mem.io[\h45]
    THEN LycHit(Pm(x.ppu, [x.mem EXCEPT !.io = [@ EXCEPT ![\h41] = Or(@, \h04)]]))
    ELSE [st |-> Pm(x.ppu, [x.mem EXCEPT !.io = [@ EXCEPT ![\h41] = And(@, \hFB)]]),
          irq |-> 0]

\* PPU.sprite_height
SpriteHeight(m) == IF And(m.io[\h40], \h04) # 0 THEN 16 ELSE 8

\* the entry _scan_oam appends for OAM entry i
SpriteAt(o, i) ==
    [y |-> OamGet(o, i * 4) - 16, x |-> OamGet(o, i * 4 + 1) - 8,
     tile |-> OamGet(o, i * 4 + 2), attr |-> OamGet(o, i * 4 + 3), oam_idx |-> i]

\* the test "y <= self.ly < y + sprite_height" of _scan_oam
OnLine(o, i, ly, height) ==
    OamGet(o, i * 4) - 16 <= ly /\ ly < OamGet(o, i * 4) - 16 + height

\* a sprite search without the limit of 10 sprites
RECURSIVE ScanLoopAll(_, _, _, _, _)
ScanLoopAll(o, ly, height, i, buf) ==
    IF i >= 40 THEN buf
    ELSE ScanLoopAll(o, ly, height, i + 1,
                     IF OnLine(o, i, ly, height) THEN Append(buf, SpriteAt(o, i))
                     ELSE buf)

\* the for loop of PPU._scan_oam from entry i on, buf the buffer so far
RECURSIVE ScanLoop(_, _, _, _, _)
ScanLoop(o, ly, height, i, buf) ==
    IF i >= 40 \/ Len(buf) >= 10 THEN buf
    ELSE ScanLoop(o, ly, height, i + 1,
                  IF OnLine(o, i, ly, height) THEN Append(buf, SpriteAt(o, i))
                  ELSE buf)

\* the sort keys of PPU._scan_oam: oam_idx in GBC mode, (x, oam_idx) else
SpriteBefore(a, b, cgb) ==
    IF cgb THEN a.oam_idx < b.oam_idx
    ELSE a.x < b.x \/ (a.x = b.x /\ a.oam_idx < b.oam_idx)

\* list.sort: sp put into the sorted list buf behind the entries that are
\* not behind it
RECURSIVE InsertSprite(_, _, _)
InsertSprite(buf, sp, cgb) ==
    IF buf = <<>> THEN <<sp>>
    ELSE IF SpriteBefore(sp, Head(buf), cgb) THEN <<sp>> \o buf
    ELSE <<Head(buf)>> \o InsertSprite(Tail(buf), sp, cgb)

RECURSIVE SortSprites(_, _, _)
SortSprites(buf, done, cgb) ==
    IF buf = <<>> THEN done
    ELSE SortSprites(Tail(buf), InsertSprite(done, Head(buf), cgb), cgb)

\* PPU._scan_oam
ScanOam(x) ==
    Pm([x.ppu EXCEPT !.sprite_buffer =
            SortSprites(ScanLoop(x.mem.oam, x.ppu.ly, SpriteHeight(x.mem), 0, <<>>),
                        <<>>, x.mem.cgb_mode)],
       x.mem)

\* a scanline that draws the window above WY too
RenderScanlineAbove(x) ==
    LET lcdc == x.mem.io[\h40]
        wy == x.mem.io[\h4A]
        wx == x.mem.io[\h4B]
        window == /\ And(lcdc, \h80) # 0
                  /\ And(lcdc, \h01) # 0 \/ x.mem.cgb_mode
                  /\ And(lcdc, \h20) # 0
                  /\ ~(wx > 166 \/ wy > 143)
                  /\ wx - 7 < 160
    IN  IF window THEN Pm([x.ppu EXCEPT !.window_line = @ + 1], x.mem) ELSE x

\* PPU._render_scanline with PPU._render_window, as far as they change the
\* PPU's state: window_line grows on a line that drew a window pixel
RenderScanline(x) ==
    LET lcdc == x.mem.io[\h40]
        wy == x.mem.io[\h4A]
        wx == x.mem.io[\h4B]
        window == /\ And(lcdc, \h80) # 0
                  /\ And(lcdc, \h01) # 0 \/ x.mem.cgb_mode
                  /\ And(lcdc, \h20) # 0
                  /\ x.ppu.ly >= wy
                  /\ ~(wx > 166 \/ wy > 143)
                  /\ wx - 7 < 160
    IN  IF window THEN Pm([x.ppu EXCEPT !.window_line = @ + 1], x.mem) ELSE x

SetLy(x, v) ==
    Pm([x.ppu EXCEPT !.ly = v], [x.mem EXCEPT !.io = [@ EXCEPT ![\h44] = v]])

SetMode(x, mode) == UpdateStat(Pm([x.ppu EXCEPT !.mode = mode], x.mem))

StatIrq(x, mask) == IF And(x.mem.io[\h41], mask) # 0 THEN 2 ELSE 0

\* a state and the interrupt bits returned with it
WithIrq(x, irq) == [st |-> x, irq |-> irq]

\* the "LYC check" lines that end two branches of PPU._advance_mode: l is
\* what _check_lyc gave, irq the bits collected before it
WithLyc(l, irq) == [st |-> l.st, irq |-> Or(irq, l.irq)]

\* the "HDMA transfer during H-Blank" lines of PPU._advance_mode
HBlankDma(m) == IF m.cgb_mode THEN DoHdmaTransfer(m) ELSE m

\* PPU._advance_mode, the Transfer branch after the mode is set
EndTransfer(x) == WithIrq(Pm(x.ppu, HBlankDma(x.mem)), StatIrq(x, \h08))

\* an entry to V-Blank that asserts no V-Blank interrupt
EnterVBlankQuiet(x) ==
    WithLyc(CheckLyc(Pm([x.ppu EXCEPT !.frame_count = @ + 1], x.mem)),
            StatIrq(x, \h10))

\* PPU._advance_mode, the H-Blank branch entering V-Blank, after the mode
\* is set
EnterVBlank(x) ==
    WithLyc(CheckLyc(Pm([x.ppu EXCEPT !.frame_count = @ + 1], x.mem)),
            Or(1, StatIrq(x, \h10)))

\* PPU._advance_mode, a branch starting a line in OAM mode, after the mode
\* is set
EnterOam(x) == WithLyc(CheckLyc(x), StatIrq(x, \h20))

\* PPU._advance_mode, the H-Blank branch after LY is incremented
EndHBlank(x) ==
    IF x.ppu.ly = SCANLINES_VISIBLE THEN EnterVBlank(SetMode(x, MODE_VBLANK))
    ELSE EnterOam(SetMode(x, MODE_OAM))

\* a new frame that keeps the window line counter
NewFrameKeep(x) == SetLy(x, 0)

\* the "start new frame" lines of the V-Blank branch up to the mode change
NewFrame(x) == SetLy(Pm([x.ppu EXCEPT !.window_line = 0], x.mem), 0)

\* a V-Blank branch that starts the new frame one line late
EndVBlankLineLate(x) ==
    IF x.ppu.ly > SCANLINES_TOTAL THEN EnterOam(SetMode(NewFrame(x), MODE_OAM))
    ELSE WithLyc(CheckLyc(x), 0)

\* PPU._advance_mode, the V-Blank branch after LY is incremented
EndVBlankLine(x) ==
    IF x.ppu.ly >= SCANLINES_TOTAL THEN EnterOam(SetMode(NewFrame(x), MODE_OAM))
    ELSE WithLyc(CheckLyc(x), 0)

\* PPU._advance_mode: the state and the interrupt bits it returns
AdvanceMode(x) ==
    IF x.ppu.mode = MODE_OAM THEN WithIrq(SetMode(ScanOam(x), MODE_TRANSFER), 0)
    ELSE IF x.ppu.mode = MODE_TRANSFER
    THEN EndTransfer(SetMode(RenderScanline(x), MODE_HBLANK))
    ELSE IF x.ppu.mode = MODE_HBLANK THEN EndHBlank(SetLy(x, x.ppu.ly + 1))
    ELSE EndVBlankLine(SetLy(x, x.ppu.ly + 1))

\* the while loop of PPU.step; PpuLoopOn takes up what one _advance_mode
\* returned
RECURSIVE PpuLoop(_, _)
PpuLoopOn(a, irq) == PpuLoop(a.st, Or(irq, a.irq))

PpuLoop(x, irq) ==
    IF x.ppu.cycles >= ModeCycles(x.ppu)
    THEN PpuLoopOn(AdvanceMode(Pm([x.ppu EXCEPT !.cycles = @ - ModeCycles(x.ppu)],
                                  x.mem)), irq)
    ELSE [st |-> x, irq |-> irq]

\* PPU.step: the state and the interrupt bits it returns
PpuStep(x, cycles) ==
    IF ~LcdEnabled(x.mem) THEN [st |-> x, irq |-> 0]
    ELSE PpuLoop(Pm([x.ppu EXCEPT !.cycles = @ + cycles], x.mem), 0)

----------------------------------------------------------------------------
(* Emulator (src/src/emulator.py)                                          *)

CYCLES_PER_FRAME == 70224

\* Emulator.__init__ (after load_rom), with the debugger's settings
NewEmu(debug, bps) ==
    [frame_cycles |-> 0, total_frames |-> 0, paused |-> FALSE,
     debug_enabled |-> debug, breakpoints |-> bps, in_frame |-> FALSE]

\* the whole machine
Sys(c, m, p, e) == [cpu |-> c, mem |-> m, ppu |-> p, emu |-> e]

\* the "Timer interrupt" lines of Emulator.step: request_interrupt(2), then
\* bit 2 of IF is cleared
TimerIrq(m) ==
    IF And(m.io[\h0F], \h04) # 0
    THEN LET m1 == RequestInterrupt(m, 2)
         IN  [m1 EXCEPT !.io = [@ EXCEPT ![\h0F] = And(@, \hFB)]]
    ELSE m

\* the "Request interrupts" lines of Emulator.step for the bits PPU.step
\* returned
RequestIf(m, cond, bit) == IF cond THEN RequestInterrupt(m, bit) ELSE m
PpuIrqs(m, irq) == RequestIf(RequestIf(m, And(irq, 1) # 0, 0), And(irq, 2) # 0, 1)

\* Emulator.step from PPU.step on: o is what CPU.step returned, t what
\* update_timer left, pp what PPU.step left
EmuAfterPpu(y, o, t, pp) ==
    [sys |-> Sys(o.st.cpu, TimerIrq(PpuIrqs(pp.st.mem, pp.irq)), pp.st.ppu,
                 [y.emu EXCEPT !.frame_cycles = @ + o.ret]),
     out |-> o, overflow |-> t.overflow, irq |-> pp.irq,
     ppu_ran |-> LcdEnabled(t.mem)]

EmuAfterTimer(y, o, t) == EmuAfterPpu(y, o, t, PpuStep(Pm(y.ppu, t.mem), o.ret))

\* Emulator.step after CPU.step: an exception of CPU.step ends the call
\* where it was raised
EmuAfterCpu(y, o) ==
    IF o.err # "none"
    THEN [sys |-> Sys(o.st.cpu, o.st.mem, y.ppu, y.emu), out |-> o,
          overflow |-> FALSE, irq |-> 0, ppu_ran |-> FALSE]
    ELSE EmuAfterTimer(y, o, UpdateTimer(o.st.mem, o.ret))

\* Emulator.step on the image r: the machine after it and what the call
\* returned
EmuStep(y, r) == EmuAfterCpu(y, CpuStep(St(y.cpu, y.mem), r))

----------------------------------------------------------------------------
(* The programs.  A byte of the image is chosen when the CPU first fetches *)
(* it; the sets below are the instructions and operands chosen from.       *)

\* the image r with address a known: as it is, or with a byte of S put there
Ext(r, a, S) ==
    IF a \in DOMAIN r THEN {r} ELSE {(a :> v) @@ r : v \in S}

\* CB-prefixed opcodes of the programs: BIT 0,A; RES 0,A; RES 4,C; RES 7,B;
\* SET 0,A; SET 3,L; SET 7,B
CbChoices == {\h47, \h87, \hA1, \hB8, \hC7, \hDD, \hF8}

\* the second byte of a two-byte instruction of the programs
OperandChoices(op) ==
    CASE op = \hCB -> CbChoices
      [] op = \h10 -> {\h00}
      [] op = \h3E -> {\h91}
      [] op = \hE0 -> {\h40}
      [] op = \h18 -> {\hFE}
      [] op = \hC6 -> {\h38}
      [] OTHER -> {\h00}

\* the instruction at pc is one the model executes in state s: its bytes are
\* known, its handler is modelled, and a pop reads the stack in HRAM
Runnable(s, r, pc) ==
    /\ pc \in DOMAIN r
    /\ r[pc] \in Modelled_Opcodes
    /\ InstrLen(r[pc]) = 2 => (pc + 1) \in DOMAIN r
    /\ r[pc] = \hCB => r[pc + 1] >= \h40 /\ r[pc + 1] % 8 # 6
    /\ r[pc] = \hE0 => Modelled(\hFF00 + r[pc + 1])
    /\ r[pc] = \hF1 => InHram(s.cpu.sp) /\ InHram(s.cpu.sp + 1)
    /\ InHram(s.cpu.sp - 2) /\ InHram(s.cpu.sp - 1)

\* the images i1 with the operand byte of the instruction at pc filled in
WithOperand(i1, pc) ==
    UNION {IF InstrLen(r1[pc]) >= 2
           THEN Ext(r1, pc + 1, OperandChoices(r1[pc])) ELSE {r1} : r1 \in i1}

\* the images on which CPU.step can be run in state s with the program's
\* instructions drawn from ops: the known image when the step fetches
\* nothing, else the image with the instruction at PC filled in
ImagesFrom(p, r, ops) ==
    IF p.kind # "fetch" THEN {r}
    ELSE IF p.st.cpu.pc + 2 >= \h8000 THEN {}
    ELSE {r2 \in WithOperand(Ext(r, p.st.cpu.pc, ops), p.st.cpu.pc) :
              Runnable(p.st, r2, p.st.cpu.pc)}

Images(s, r, ops) == ImagesFrom(StepPrefix(s), r, ops)

\* what last holds
Last(op, o, overflow, irq) ==
    [op |-> op, kind |-> o.kind, ret |-> o.ret, err |-> o.err,
     opcode |-> o.opcode, at |-> o.at, overflow |-> overflow, irq |-> irq]

NoOutcome == [kind |-> "none", ret |-> 0, err |-> "none", opcode |-> -1, at |-> -1]

\* what hist holds at the start: instructions and frames used, whether a
\* PPU.step was ever skipped, and for the run_frame call under way whether
\* it started at a frame boundary with the LCD on, the PPU's frame counter
\* at the call, the V-Blank interrupts PPU.step has asserted, the wraps of
\* LY from 153 to 0 and whether a PPU.step was skipped
NewHist ==
    [instr |-> 0, frames |-> 0, lcd_skipped |-> FALSE,
     boundary |-> FALSE, fc0 |-> 0, vblanks |-> 0, wraps |-> 0,
     call_skipped |-> FALSE]

\* an image used in the step is new when the step fetched a fresh instruction
Fresh(r1) == r1 # rom

\* the entry point the run starts at, reached by the header's jump
EntryPc == 336

\* SP after CPU.__init__ and init_gbc_mode
StackTop == \hFFFE

\* the state after a CPU.step that returned or raised o on the image r1
CpuStepTo(o, r1, max) ==
    /\ Fresh(r1) => hist.instr < max
    /\ o.st.cpu.sp >= StackTop - 2 * MaxDepth
    /\ cpu' = o.st.cpu
    /\ mem' = o.st.mem
    /\ rom' = r1
    /\ last' = Last("cpu_step", o, FALSE, 0)
    /\ hist' = [hist EXCEPT !.instr = IF Fresh(r1) THEN @ + 1 ELSE @]
    /\ UNCHANGED <<ppu, emu>>

\* CPU.step, the program's instructions drawn from ops, at most max of them
CpuStepWith(ops, max) ==
    \E r1 \in Images(St(cpu, mem), rom, ops) :
        CpuStepTo(CpuStep(St(cpu, mem), r1), r1, max)

\* the state a program has set up before the run: IME, IE and IF
InitWith(cgb, ime, ie, if) ==
    /\ cpu = [NewCpu(cgb) EXCEPT !.pc = EntryPc, !.ime = ime]
    /\ mem = [NewMemory(cgb) EXCEPT !.ie = ie, !.io = [@ EXCEPT ![\h0F] = if]]
    /\ rom = <<>>
    /\ ppu = NewPpu
    /\ emu = NewEmu(FALSE, {})
    /\ last = Last("init", NoOutcome, FALSE, 0)
    /\ hist = NewHist

----------------------------------------------------------------------------
(* SpecIrq: CPU.step called on a CPU and its memory, with interrupt        *)
(* requests arriving between the steps.                                    *)

\* instructions of the programs: NOP, HALT, DI, EI
OpsIrq == {\h00, \h76, \hF3, \hFB}

\* (IE, IF) pairs a program has set up before the run starts
IrqSetups == {<<\h01, \h01>>, <<\h1F, \hE0>>}

InitIrq ==
    \E ime \in BOOLEAN, q \in IrqSetups : InitWith(FALSE, ime, q[1], q[2])

\* CPU.step
IrqCpuStep == CpuStepWith(OpsIrq, MaxInstr)

\* the interrupts requested between steps: VBlank, STAT, Timer
IrqBits == {0, 1, 2}

\* CPU.request_interrupt(bit), as the emulator calls it between steps
RequestInterruptCall ==
    \E bit \in IrqBits :
        /\ mem' = RequestInterrupt(mem, bit)
        /\ last' = Last("request_interrupt", NoOutcome, FALSE, 0)
        /\ UNCHANGED <<cpu, rom, ppu, emu, hist>>

NextIrq == IrqCpuStep \/ RequestInterruptCall

SpecIrq == InitIrq /\ [][NextIrq]_vars

----------------------------------------------------------------------------
(* SpecOps: CPU.step on programs of flag, bit and stack instructions and   *)
(* undefined opcode bytes.                                                 *)

\* instructions of the programs: NOP, INC A, SCF, the CB prefix, two
\* undefined bytes, POP AF, EI
OpsOps == {\h00, \h3C, \h37, \hCB, \hD3, \hFD, \hF1, \hFB}

\* (IE, IF) pairs a program has set up before the run starts, the boot
\* values first
OpsSetups == {<<\h00, \hE1>>, <<\h01, \h01>>}

InitOps ==
    \E cgb \in BOOLEAN, q \in OpsSetups : InitWith(cgb, FALSE, q[1], q[2])

\* CPU.step
OpsCpuStep == CpuStepWith(OpsOps, MaxInstr)

NextOps == OpsCpuStep

SpecOps == InitOps /\ [][NextOps]_vars

----------------------------------------------------------------------------
(* SpecSpeed: CPU.step called on a CPU whose program has written the speed *)
(* switch register KEY1.                                                   *)

\* instructions of the programs: NOP, STOP, HALT, EI, INC A, SCF
OpsSpeed == {\h00, \h10, \h76, \hFB, \h3C, \h37}

\* (KEY1, double_speed) a program has set up: the boot value (-1), the
\* switch armed at either speed, and double speed after a switch
SpeedSetups == {<<-1, FALSE>>, <<\h01, FALSE>>, <<\h01, TRUE>>, <<\h80, TRUE>>}

InitSpeed ==
    \E cgb \in BOOLEAN, q \in SpeedSetups, i \in {<<FALSE, \h00, \hE1>>, <<TRUE, \h01, \hE1>>} :
        /\ cpu = [NewCpu(cgb) EXCEPT !.pc = EntryPc, !.ime = i[1],
                                     !.double_speed = q[2]]
        /\ mem = [NewMemory(cgb) EXCEPT
                      !.ie = i[2],
                      !.io = [@ EXCEPT ![\h0F] = i[3],
                                       ![\h4D] = IF q[1] < 0 THEN @ ELSE q[1]]]
        /\ rom = <<>>
        /\ ppu = NewPpu
        /\ emu = NewEmu(FALSE, {})
        /\ last = Last("init", NoOutcome, FALSE, 0)
        /\ hist = NewHist

\* CPU.step
SpeedCpuStep == CpuStepWith(OpsSpeed, MaxInstr)

NextSpeed == SpeedCpuStep

SpecSpeed == InitSpeed /\ [][NextSpeed]_vars

----------------------------------------------------------------------------
(* SpecBcd: CPU.step called on a CPU whose program starts with ADD A,b, A  *)
(* and b packed-BCD bytes.  Here hist also holds the A and the b the run   *)
(* started with.                                                           *)

\* the packed-BCD bytes: two decimal digits
BcdBytes == {16 * h + l : h \in 0 .. 9, l \in 0 .. 9}

\* instructions of the programs after the first: NOP, DAA, ADD A,0x38
OpsBcd == {\h00, \h27, \hC6}

\* the F a program has left before the addition
BcdFlags == {\h00, \hF0}

InitBcd ==
    \E a \in BcdBytes, b \in BcdBytes, f \in BcdFlags :
        /\ cpu = [NewCpu(FALSE) EXCEPT !.pc = EntryPc, !.a = a, !.f = f]
        /\ mem = NewMemory(FALSE)
        /\ rom = (EntryPc :> \hC6) @@ ((EntryPc + 1) :> b)
        /\ ppu = NewPpu
        /\ emu = NewEmu(FALSE, {})
        /\ last = Last("init", NoOutcome, FALSE, 0)
        /\ hist = [a0 |-> a, b0 |-> b] @@ NewHist

\* CPU.step
BcdCpuStep ==
    \E r1 \in Images(St(cpu, mem), rom, OpsBcd) :
        /\ hist.instr < MaxInstr
        /\ cpu' = CpuStep(St(cpu, mem), r1).st.cpu
        /\ mem' = CpuStep(St(cpu, mem), r1).st.mem
        /\ rom' = r1
        /\ last' = Last("cpu_step", CpuStep(St(cpu, mem), r1), FALSE, 0)
        /\ hist' = [hist EXCEPT !.instr = @ + 1]
        /\ UNCHANGED <<ppu, emu>>

NextBcd == BcdCpuStep

SpecBcd == InitBcd /\ [][NextBcd]_vars

----------------------------------------------------------------------------
(* Spec: Emulator.step, Emulator.press_button and Emulator.release_button  *)
(* called on an emulator whose program has set up the timer and the        *)
(* interrupt registers.                                                    *)

\* instructions of the programs: NOP, STOP, HALT, EI
OpsEmu == {\h00, \h10, \h76, \hFB}

\* (IE, IF) pairs a program has set up: the boot values, and Timer and
\* Joypad enabled with nothing pending
EmuSetups == {<<\h00, \hE1>>, <<\h14, \hE0>>}

\* (TAC, TIMA, TMA) a program has set up: the boot values (timer off), and
\* the timer on at 262144 Hz, one increment from overflow
TimerSetups == {<<\hF8, \h00, \h00>>, <<\h05, \hFF, \hF0>>}

\* the buttons pressed and released, by the names the callers pass
Buttons == {"a", "start"}

\* button_map of Emulator.press_button and Emulator.release_button
ButtonMap ==
    [b \in {"a", "b", "select", "start", "right", "left", "up", "down"} |->
        CASE b = "a" -> 0 [] b = "b" -> 1 [] b = "select" -> 2 [] b = "start" -> 3
          [] b = "right" -> 4 [] b = "left" -> 5 [] b = "up" -> 6 [] b = "down" -> 7]

Init ==
    \E ime \in BOOLEAN, q \in EmuSetups, t \in TimerSetups :
        /\ cpu = [NewCpu(FALSE) EXCEPT !.pc = EntryPc, !.ime = ime]
        /\ mem = [NewMemory(FALSE) EXCEPT
                      !.ie = q[1],
                      !.io = [@ EXCEPT ![\h0F] = q[2], ![\h07] = t[1],
                                       ![\h05] = t[2], ![\h06] = t[3]]]
        /\ rom = <<>>
        /\ ppu = NewPpu
        /\ emu = NewEmu(FALSE, {})
        /\ last = Last("init", NoOutcome, FALSE, 0)
        /\ hist = NewHist

\* the state after an Emulator.step e on the image r1
EmuStepTo(e, r1, max) ==
    /\ Fresh(r1) => hist.instr < max
    /\ e.sys.cpu.sp >= StackTop - 2 * MaxDepth
    /\ cpu' = e.sys.cpu
    /\ mem' = e.sys.mem
    /\ ppu' = e.sys.ppu
    /\ emu' = e.sys.emu
    /\ rom' = r1
    /\ last' = Last("emu_step", e.out, e.overflow, e.irq)
    /\ hist' = [hist EXCEPT !.instr = IF Fresh(r1) THEN @ + 1 ELSE @,
                            !.lcd_skipped = @ \/ ~e.ppu_ran,
                            !.call_skipped = @ \/ ~e.ppu_ran,
                            !.vblanks = @ + And(e.irq, 1),
                            !.wraps = IF ppu.ly = SCANLINES_TOTAL - 1
                                         /\ e.sys.ppu.ly = 0
                                      THEN @ + 1 ELSE @]

\* Emulator.step, the program's instructions drawn from ops, at most max of
\* them
EmuStepWith(ops, max) ==
    \E r1 \in Images(St(cpu, mem), rom, ops) :
        EmuStepTo(EmuStep(Sys(cpu, mem, ppu, emu), r1), r1, max)

\* Emulator.step, while the run is shorter than MaxCycles
EmuStepCall ==
    /\ emu.frame_cycles < MaxCycles
    /\ EmuStepWith(OpsEmu, MaxInstr)

\* Emulator.press_button
PressButtonCall ==
    \E button \in Buttons :
        /\ mem' = RequestInterrupt(SetButton(mem, ButtonMap[button], TRUE), 4)
        /\ last' = Last("press_button", NoOutcome, FALSE, 0)
        /\ UNCHANGED <<cpu, rom, ppu, emu, hist>>

\* Emulator.release_button
ReleaseButtonCall ==
    \E button \in Buttons :
        /\ mem' = SetButton(mem, ButtonMap[button], FALSE)
        /\ last' = Last("release_button", NoOutcome, FALSE, 0)
        /\ UNCHANGED <<cpu, rom, ppu, emu, hist>>

Next == EmuStepCall \/ PressButtonCall \/ ReleaseButtonCall

Spec == Init /\ [][Next]_vars

----------------------------------------------------------------------------
(* SpecHalt: Emulator.step called again and again, as the front end's loop *)
(* does, on an emulator whose program has enabled the V-Blank interrupt    *)
(* and waits in HALT.  The ROM holds HALT at the entry point, NOP or HALT  *)
(* at the V-Blank vector and the zero padding (NOP) elsewhere.  Here hist  *)
(* also holds the cycles the CPU has been halted for (since) and the       *)
(* cycles the last HALT took (slept), and hist.instr counts the steps that *)
(* found the CPU running or woke it.                                       *)

\* instructions at the V-Blank vector: NOP, HALT
OpsHalt == {\h00, \h76}

\* the V-Blank interrupt's vector
VBlankVector == \h40

InitHalt ==
    \E ime \in BOOLEAN, v \in OpsHalt :
        /\ cpu = [NewCpu(FALSE) EXCEPT !.pc = EntryPc, !.ime = ime]
        /\ mem = [NewMemory(FALSE) EXCEPT !.ie = \h01,
                                          !.io = [@ EXCEPT ![\h0F] = \hE0]]
        /\ rom = (EntryPc :> \h76) @@ (VBlankVector :> v)
        /\ ppu = NewPpu
        /\ emu = NewEmu(FALSE, {})
        /\ last = Last("init", NoOutcome, FALSE, 0)
        /\ hist = [since |-> 0, slept |-> 0] @@ NewHist

\* the state after an Emulator.step that left e on the image r1
HaltStepTo(e, r1) ==
    /\ cpu' = e.sys.cpu
    /\ mem' = e.sys.mem
    /\ ppu' = e.sys.ppu
    /\ emu' = e.sys.emu
    /\ rom' = r1
    /\ last' = Last("emu_step", e.out, e.overflow, e.irq)
    /\ hist' = [hist EXCEPT
                    !.instr = IF e.out.kind = "halt" THEN @ ELSE @ + 1,
                    !.vblanks = @ + And(e.irq, 1),
                    !.since = IF cpu.halted /\ e.sys.cpu.halted
                              THEN @ + e.out.ret ELSE 0,
                    !.slept = IF cpu.halted /\ ~e.sys.cpu.halted
                              THEN hist.since ELSE @]

\* the front end calls Emulator.step: always while the CPU is halted
HaltStepEnabled ==
    /\ emu.frame_cycles < MaxHaltCycles
    /\ cpu.halted \/ hist.instr < MaxHaltInstr

\* Emulator.step
HaltStepCall ==
    /\ HaltStepEnabled
    /\ \E r1 \in Images(St(cpu, mem), rom, {\h00}) :
           HaltStepTo(EmuStep(Sys(cpu, mem, ppu, emu), r1), r1)

NextHalt == HaltStepCall

\* the front end's loop does not stop calling Emulator.step: weak fairness
\* of NextHalt, WF_vars(NextHalt), with ENABLED <<NextHalt>>_vars written
\* as the guard HaltStepEnabled (every enabled step changes frame_cycles)
HaltFair == []<>(~HaltStepEnabled) \/ []<><<NextHalt>>_vars

SpecHalt == InitHalt /\ [][NextHalt]_vars /\ HaltFair

----------------------------------------------------------------------------
(* SpecFrame: Emulator.run_frame, its while loop taken one Emulator.step   *)
(* at a time (emu.in_frame says a call is inside the loop).                *)

\* instructions of the programs: LD A,0x91; LDH (0x40),A; JR -2
OpsFrame == {\h3E, \hE0, \h18}

\* debug_enabled and breakpoints as a debugger front end sets them: off, or
\* on with a breakpoint at the entry point
DebugSetups == {<<FALSE, {}>>, <<TRUE, {EntryPc}>>}

InitFrame ==
    \E d \in DebugSetups :
        /\ cpu = [NewCpu(FALSE) EXCEPT !.pc = EntryPc]
        /\ mem = NewMemory(FALSE)
        /\ rom = <<>>
        /\ ppu = NewPpu
        /\ emu = NewEmu(d[1], d[2])
        /\ last = Last("init", NoOutcome, FALSE, 0)
        /\ hist = NewHist

\* the test of the breakpoint in the loop of Emulator.run_frame
AtBreakpoint == emu.debug_enabled /\ cpu.pc \in emu.breakpoints

\* the PPU stands at the start of a frame, in step with the emulator's
\* cycle count, and the LCD is on
AtFrameBoundary ==
    /\ ppu.ly = 0 /\ ppu.mode = MODE_OAM
    /\ ppu.cycles = emu.frame_cycles
    /\ LcdEnabled(mem)

\* Emulator.run_frame is called
RunFrameCall ==
    /\ ~emu.in_frame
    /\ hist.frames < MaxFrames
    /\ emu' = [emu EXCEPT !.in_frame = TRUE]
    /\ hist' = [hist EXCEPT !.frames = @ + 1,
                            !.boundary = AtFrameBoundary,
                            !.fc0 = ppu.frame_count,
                            !.vblanks = 0, !.wraps = 0,
                            !.call_skipped = FALSE]
    /\ last' = Last("run_frame_call", NoOutcome, FALSE, 0)
    /\ UNCHANGED <<cpu, mem, rom, ppu>>

\* one turn of the while loop of Emulator.run_frame
RunFrameLoop ==
    /\ emu.in_frame
    /\ emu.frame_cycles < CYCLES_PER_FRAME
    /\ ~AtBreakpoint
    /\ EmuStepWith(OpsFrame, MaxProg)

\* the lines of Emulator.run_frame after the loop
RunFrameEnd(kind) ==
    /\ emu' = [emu EXCEPT !.paused = IF kind = "break" THEN TRUE ELSE @,
                          !.frame_cycles = @ - CYCLES_PER_FRAME,
                          !.total_frames = @ + 1,
                          !.in_frame = FALSE]
    /\ last' = Last("run_frame", [NoOutcome EXCEPT !.kind = kind], FALSE, 0)
    /\ UNCHANGED <<cpu, mem, rom, ppu, hist>>

\* Emulator.run_frame leaves the loop at a breakpoint and returns
RunFrameBreak ==
    /\ emu.in_frame
    /\ emu.frame_cycles < CYCLES_PER_FRAME
    /\ AtBreakpoint
    /\ RunFrameEnd("break")

\* Emulator.run_frame leaves the loop on its condition and returns
RunFrameReturn ==
    /\ emu.in_frame
    /\ emu.frame_cycles >= CYCLES_PER_FRAME
    /\ RunFrameEnd("full")

NextFrame == RunFrameCall \/ RunFrameLoop \/ RunFrameBreak \/ RunFrameReturn

SpecFrame == InitFrame /\ [][NextFrame]_vars

----------------------------------------------------------------------------
(* SpecIo: Memory.write to STAT and HDMA5 as the CPU's stores make it, and *)
(* PPU.step, on a machine in GBC mode whose program has set up HDMA1-4 and *)
(* filled HRAM.                                                            *)
(* Here hist holds the writes made, the value that armed the H-Blank DMA   *)
(* under way or last finished (-1 when none, or when it was cancelled or a *)
(* general DMA ran since), the H-Blank entries since it was armed and the  *)
(* VRAM at the arming; last holds the call made.                           *)

\* what a program has stored in HDMA1-2 and HDMA3-4, and the source and the
\* VRAM offset these stand for
DmaSetups == {<<\hFF80, \h0010, \hFF80, \h0010>>,
              <<\hFF95, \h9FF7, \hFF90, \h1FF0>>}

\* the bytes a program has stored in HRAM
DmaHram == [a \in \hFF80 .. \hFFDF |-> a - \hFF7F]

\* the (address, value) pairs written: STAT, and HDMA5 with bit 7 clear and
\* set
IoWrites == {<<\hFF41, \h78>>,
             <<\hFF55, \h00>>, <<\hFF55, \h01>>,
             <<\hFF55, \h80>>, <<\hFF55, \h82>>}

\* the cycle counts PPU.step is called with
IoCycles == {172, 204}

InitIoSpec ==
    \E d \in DmaSetups :
        /\ cpu = [NewCpu(TRUE) EXCEPT !.pc = EntryPc]
        /\ mem = [NewMemory(TRUE) EXCEPT
                      !.hram = DmaHram,
                      !.io = [@ EXCEPT ![\h51] = d[1] \div 256, ![\h52] = d[1] % 256,
                                       ![\h53] = d[2] \div 256, ![\h54] = d[2] % 256]]
        /\ rom = <<>>
        /\ ppu = NewPpu
        /\ emu = NewEmu(FALSE, {})
        /\ last = [op |-> "init", addr |-> 0, value |-> 0, entered |-> FALSE]
        /\ hist = [writes |-> 0, armed |-> -1, hblanks |-> 0,
                   vram0 |-> [a \in {} |-> 0], src0 |-> d[3], dst0 |-> d[4]]

\* Memory.write(addr, value)
IoWriteCall ==
    \E w \in IoWrites :
        /\ hist.writes < MaxWrites
        /\ mem' = Write(mem, w[1], w[2])
        /\ last' = [op |-> "write", addr |-> w[1], value |-> w[2], entered |-> FALSE]
        /\ hist' = IF w[1] = \hFF55 /\ mem.cgb_mode
                   THEN [hist EXCEPT !.writes = @ + 1,
                                     !.armed = IF w[2] >= \h80 THEN w[2] ELSE -1,
                                     !.hblanks = 0,
                                     !.vram0 = mem.vram]
                   ELSE [hist EXCEPT !.writes = @ + 1]
        /\ UNCHANGED <<cpu, rom, ppu, emu>>

\* the PPU has entered H-Blank between two states less than 253 cycles apart
EnteredHBlank(p, q) ==
    /\ p.mode \in {MODE_OAM, MODE_TRANSFER}
    /\ q.mode = MODE_HBLANK \/ q.ly # p.ly

\* the state after a PPU.step that left x
IoPpuStepTo(x) ==
    /\ ppu' = x.st.ppu
    /\ mem' = x.st.mem
    /\ last' = [op |-> "ppu_step", addr |-> 0, value |-> 0,
                entered |-> EnteredHBlank(ppu, x.st.ppu)]
    /\ hist' = [hist EXCEPT !.hblanks =
                    IF EnteredHBlank(ppu, x.st.ppu) THEN @ + 1 ELSE @]
    /\ UNCHANGED <<cpu, rom, emu>>

\* PPU.step(cycles)
IoPpuStepCall ==
    \E c \in IoCycles :
        /\ ppu.ly < MaxLines
        /\ IoPpuStepTo(PpuStep(Pm(ppu, mem), c))

NextIo == IoWriteCall \/ IoPpuStepCall

SpecIo == InitIoSpec /\ [][NextIo]_vars

----------------------------------------------------------------------------
(* SpecPpu: PPU.step with cycle counts from an instruction's to two lines, *)
(* and Memory.write to LCDC, WY and LY as the CPU's stores make it, on a   *)
(* machine whose program has placed the window.  The runs without a write  *)
(* go through a frame and into the next, the runs with a write through the *)
(* first lines.  Here hist holds the cycles passed to PPU.step while the   *)
(* LCD was on, the calls with other than a line's cycles and the writes    *)
(* made; last holds the call made.                                         *)

\* (GBC mode, LCDC, WX) a program has set up: the boot values, the window
\* on at the left edge, the same with the background off on either machine,
\* and the window on at WX=167
PpuSetups ==
    {<<FALSE, \h91, \h00>>, <<FALSE, \hB1, \h07>>, <<FALSE, \hB0, \h07>>,
     <<TRUE, \hB0, \h07>>, <<FALSE, \hB1, \hA7>>}

\* the (address, value) pairs written: LCDC with the window on, WY, and LY
PpuWrites == {<<\hFF40, \hB1>>, <<\hFF4A, \h02>>, <<\hFF44, \h90>>}

\* the cycle counts PPU.step is called with: an instruction, OAM scan and
\* Transfer, a line, and two lines
PpuCycles == {4, 252, 456, 912}

InitPpu ==
    \E q \in PpuSetups :
        /\ cpu = [NewCpu(q[1]) EXCEPT !.pc = EntryPc]
        /\ mem = [NewMemory(q[1]) EXCEPT
                      !.io = [@ EXCEPT ![\h40] = q[2], ![\h4B] = q[3]]]
        /\ rom = <<>>
        /\ ppu = NewPpu
        /\ emu = NewEmu(FALSE, {})
        /\ last = [op |-> "init", cycles |-> 0, addr |-> 0, value |-> 0]
        /\ hist = [t |-> 0, steps |-> 0, writes |-> 0]

\* the state after a PPU.step(c) that left x
PpuStepTo(x, c) ==
    /\ ppu' = x.st.ppu
    /\ mem' = x.st.mem
    /\ last' = [op |-> "ppu_step", cycles |-> c, addr |-> 0, value |-> 0]
    /\ hist' = [hist EXCEPT !.steps = IF c # CYCLES_SCANLINE THEN @ + 1 ELSE @,
                            !.t = IF LcdEnabled(mem) THEN @ + c ELSE @]
    /\ UNCHANGED <<cpu, rom, emu>>

\* PPU.step(cycles)
PpuStepCall ==
    \E c \in PpuCycles :
        /\ c # CYCLES_SCANLINE => hist.steps < MaxPpuSteps
        /\ hist.t + c <= MaxPpuCycles
        /\ hist.writes > 0 => ppu.ly < MaxLines
        /\ PpuStepTo(PpuStep(Pm(ppu, mem), c), c)

\* Memory.write(addr, value)
PpuWriteCall ==
    \E w \in PpuWrites :
        /\ hist.writes < MaxPpuWrites
        /\ ppu.ly < MaxLines
        /\ mem' = Write(mem, w[1], w[2])
        /\ last' = [op |-> "write", cycles |-> 0, addr |-> w[1], value |-> w[2]]
        /\ hist' = [hist EXCEPT !.writes = @ + 1]
        /\ UNCHANGED <<cpu, rom, ppu, emu>>

NextPpu == PpuStepCall \/ PpuWriteCall

SpecPpu == InitPpu /\ [][NextPpu]_vars

----------------------------------------------------------------------------
(* SpecScan: PPU.step over the first lines of a frame, on a machine whose  *)
(* program has filled OAM and chosen the sprite size.  Here hist holds the *)
(* calls made and last the call made.                                      *)

\* the (Y, X, tile, attributes) a program has stored in OAM, by entry: an
\* entry at Y=0, three at Y=16 (two of them at one X, left of the third),
\* eleven at Y=17, one at Y=8 and the last entry at Y=10, X=0
PpuSprites ==
    [i \in {0, 1, 2, 3} \cup (4 .. 14) \cup {15, 39} |->
        CASE i = 0 -> <<0, 8, 1, 0>>
          [] i = 1 -> <<16, 40, 2, \h80>>
          [] i \in {2, 3} -> <<16, 24, 3, 0>>
          [] i \in 4 .. 14 -> <<17, 50 - i, 4, 0>>
          [] i = 15 -> <<8, 16, 5, \h20>>
          [] i = 39 -> <<10, 0, 6, 0>>]

\* the OAM array holding PpuSprites
PpuOam ==
    [a \in {i * 4 + k : i \in DOMAIN PpuSprites, k \in 0 .. 3} |->
        PpuSprites[a \div 4][(a % 4) + 1]]

\* (GBC mode, LCDC) a program has set up: 8x8 and 8x16 sprites on either
\* machine
ScanSetups == {<<FALSE, \h93>>, <<FALSE, \h97>>, <<TRUE, \h93>>, <<TRUE, \h97>>}

\* the cycle counts PPU.step is called with: an instruction, the OAM scan,
\* and a line
ScanCycles == {4, 80, 456}

InitScan ==
    \E q \in ScanSetups :
        /\ cpu = [NewCpu(q[1]) EXCEPT !.pc = EntryPc]
        /\ mem = [NewMemory(q[1]) EXCEPT !.oam = PpuOam,
                                         !.io = [@ EXCEPT ![\h40] = q[2]]]
        /\ rom = <<>>
        /\ ppu = NewPpu
        /\ emu = NewEmu(FALSE, {})
        /\ last = [op |-> "init", cycles |-> 0, addr |-> 0, value |-> 0]
        /\ hist = [t |-> 0, steps |-> 0, writes |-> 0]

\* PPU.step(cycles)
ScanStepCall ==
    \E c \in ScanCycles :
        /\ ppu.ly < MaxScanLines
        /\ c # CYCLES_SCANLINE => hist.steps < MaxPpuSteps
        /\ PpuStepTo(PpuStep(Pm(ppu, mem), c), c)

NextScan == ScanStepCall

SpecScan == InitScan /\ [][NextScan]_vars

----------------------------------------------------------------------------
(* SpecTimer: Memory.update_timer and writes to DIV, on a memory whose     *)
(* program has set up the timer.  Here hist holds the calls made, the      *)
(* setup, the cycles passed to update_timer in all and those passed since  *)
(* the last write to DIV (-1 before the first); last holds the call made.  *)

\* (name, TAC, TIMA, TMA, IF) a program has set up: the boot values (timer
\* off), and the timer on at one increment per 16 cycles, two increments
\* from overflow, with no interrupt requested
TimerStarts == {<<"boot", \hF8, \h00, \h00, \hE1>>,
                <<"fast", \h05, \hFE, \hAA, \h00>>}

\* the cycle counts update_timer is called with: an instruction's, a DIV
\* period and, with the timer off, half of DIV's range
TimerCycles(setup) ==
    IF setup = "fast" THEN {4, 16, 28, 256} ELSE {4, 256, 32768}

\* the values written to DIV
DivValues == {\h00, \h5A, \hFF}

InitTimer ==
    \E t \in TimerStarts :
        /\ cpu = [NewCpu(FALSE) EXCEPT !.pc = EntryPc]
        /\ mem = [NewMemory(FALSE) EXCEPT
                      !.io = [@ EXCEPT ![\h07] = t[2], ![\h05] = t[3],
                                       ![\h06] = t[4], ![\h0F] = t[5]]]
        /\ rom = <<>>
        /\ ppu = NewPpu
        /\ emu = NewEmu(FALSE, {})
        /\ last = [op |-> "init", arg |-> 0]
        /\ hist = [calls |-> 0, setup |-> t[1], t |-> 0, n |-> -1]

\* Memory.update_timer(cycles)
UpdateTimerCall ==
    \E c \in TimerCycles(hist.setup) :
        /\ hist.calls < MaxTimerCalls
        /\ mem' = UpdateTimer(mem, c).mem
        /\ last' = [op |-> "update_timer", arg |-> c]
        /\ hist' = [hist EXCEPT !.calls = @ + 1, !.t = @ + c,
                                !.n = IF @ = -1 THEN -1 ELSE @ + c]
        /\ UNCHANGED <<cpu, rom, ppu, emu>>

\* Memory.write(0xFF04, value)
WriteDivCall ==
    \E v \in DivValues :
        /\ hist.calls < MaxTimerCalls
        /\ mem' = Write(mem, \hFF04, v)
        /\ last' = [op |-> "write_div", arg |-> v]
        /\ hist' = [hist EXCEPT !.calls = @ + 1, !.n = 0]
        /\ UNCHANGED <<cpu, rom, ppu, emu>>

NextTimer == UpdateTimerCall \/ WriteDivCall

SpecTimer == InitTimer /\ [][NextTimer]_vars

----------------------------------------------------------------------------
(* Cartridges (src/src/memory.py): the bank controllers and load_rom.  A   *)
(* ROM image is kept as its length, its header bytes and a seed: the byte  *)
(* at an offset is a fixed function of these.  A bank controller is the    *)
(* record of its fields; the fields a class lacks stay at their first      *)
(* values.                                                                 *)

\* rom_data[o] of the image img, for o < img.len
ImageByte(img, o) ==
    CASE o = \h143 -> img.cgb_flag
      [] o = \h147 -> img.cart_type
      [] o = \h149 -> img.ram_code
      [] OTHER -> (o + 7 * (o \div \h4000) + img.seed) % 256

\* mbc_types of Memory.load_rom: the class for a cartridge-type byte, MBC5
\* for a byte that is not a key
MbcClass(cart_type) ==
    CASE cart_type = \h00 -> "MBC_None"
      [] cart_type \in {\h01, \h02, \h03} -> "MBC1"
      [] cart_type \in {\h05, \h06} -> "MBC2"
      [] cart_type \in {\h0F, \h10, \h11, \h12, \h13} -> "MBC3"
      [] OTHER -> "MBC5"

\* the keys of mbc_types
MbcTypes ==
    {\h00, \h01, \h02, \h03, \h05, \h06, \h0F, \h10, \h11, \h12, \h13,
     \h19, \h1A, \h1B, \h1C, \h1D, \h1E}

\* ram_sizes.get(ram_size_code, 0) of Memory.load_rom
RamSize(code) ==
    CASE code = 1 -> \h800 [] code = 2 -> \h2000 [] code = 3 -> \h8000
      [] code = 4 -> \h20000 [] code = 5 -> \h10000 [] OTHER -> 0

\* Memory.mbc before a ROM is loaded
NoMbc == [kind |-> "none"]

\* len(self.ram) as MBC.__init__ and MBC2.__init__ leave it
RamLen(kind, ram_size) ==
    IF kind = "MBC2" THEN 512 ELSE IF ram_size > 0 THEN ram_size ELSE \h2000

\* MBC.__init__ with the __init__ of the subclass; ram is the map of the
\* nonzero bytes of the numpy array
NewMbc(kind, img, ram_size) ==
    [kind |-> kind, img |-> img, ram_size |-> ram_size,
     rom_bank |-> 1, ram_bank |-> 0, ram_enabled |-> FALSE,
     mode |-> 0, rom_bank_low |-> 1, rom_bank_high |-> 0,
     ram |-> [a \in {} |-> 0], ram_len |-> RamLen(kind, ram_size),
     rtc_registers |-> [i \in 0 .. 4 |-> 0], rtc_latched |-> [i \in 0 .. 4 |-> 0],
     rtc_latch_state |-> 0, ram_rtc_select |-> 0]

\* MBC1._update_banks
UpdateBanks(c) ==
    IF c.mode = 0
    THEN [c EXCEPT !.rom_bank = Or(c.rom_bank_high * 32, c.rom_bank_low),
                   !.ram_bank = 0]
    ELSE [c EXCEPT !.rom_bank = c.rom_bank_low, !.ram_bank = c.rom_bank_high]

\* a write to the ROM bank register that stores 0 as it is
Mbc1WriteRomZero(c, addr, value) ==
    IF addr < \h2000 THEN [c EXCEPT !.ram_enabled = (And(value, \h0F) = \h0A)]
    ELSE IF addr < \h4000
    THEN UpdateBanks([c EXCEPT !.rom_bank_low = And(value, \h1F)])
    ELSE IF addr < \h6000
    THEN UpdateBanks([c EXCEPT !.rom_bank_high = And(value, \h03)])
    ELSE UpdateBanks([c EXCEPT !.mode = And(value, \h01)])

\* MBC1.write_rom
Mbc1WriteRom(c, addr, value) ==
    IF addr < \h2000 THEN [c EXCEPT !.ram_enabled = (And(value, \h0F) = \h0A)]
    ELSE IF addr < \h4000
    THEN UpdateBanks([c EXCEPT !.rom_bank_low =
                          IF And(value, \h1F) = 0 THEN 1 ELSE And(value, \h1F)])
    ELSE IF addr < \h6000
    THEN UpdateBanks([c EXCEPT !.rom_bank_high = And(value, \h03)])
    ELSE UpdateBanks([c EXCEPT !.mode = And(value, \h01)])

\* MBC5.write_rom
Mbc5WriteRom(c, addr, value) ==
    IF addr < \h2000 THEN [c EXCEPT !.ram_enabled = (And(value, \h0F) = \h0A)]
    ELSE IF addr < \h3000
    THEN [c EXCEPT !.rom_bank_low = value,
                   !.rom_bank = Or(c.rom_bank_high * 256, value)]
    ELSE IF addr < \h4000
    THEN [c EXCEPT !.rom_bank_high = And(value, \h01),
                   !.rom_bank = Or(And(value, \h01) * 256, c.rom_bank_low)]
    ELSE IF addr < \h6000 THEN [c EXCEPT !.ram_bank = And(value, \h0F)]
    ELSE c

\* MBC2.write_rom
Mbc2WriteRom(c, addr, value) ==
    IF addr >= \h4000 THEN c
    ELSE IF And(addr, \h0100) # 0
    THEN [c EXCEPT !.rom_bank = IF And(value, \h0F) = 0 THEN 1 ELSE And(value, \h0F)]
    ELSE [c EXCEPT !.ram_enabled = (And(value, \h0F) = \h0A)]

\* a latch that copies on the first write of the sequence
Mbc3LatchEarly(c, value) ==
    IF c.rtc_latch_state = 0 /\ value = \h00
    THEN [c EXCEPT !.rtc_latched = c.rtc_registers, !.rtc_latch_state = 1]
    ELSE IF c.rtc_latch_state = 1 /\ value = \h01
    THEN [c EXCEPT !.rtc_latch_state = 0]
    ELSE c

\* the "RTC Latch" lines of MBC3.write_rom
Mbc3Latch(c, value) ==
    IF c.rtc_latch_state = 0 /\ value = \h00 THEN [c EXCEPT !.rtc_latch_state = 1]
    ELSE IF c.rtc_latch_state = 1 /\ value = \h01
    THEN [c EXCEPT !.rtc_latched = c.rtc_registers, !.rtc_latch_state = 0]
    ELSE c

\* MBC3.write_rom
Mbc3WriteRom(c, addr, value) ==
    IF addr < \h2000 THEN [c EXCEPT !.ram_enabled = (And(value, \h0F) = \h0A)]
    ELSE IF addr < \h4000
    THEN [c EXCEPT !.rom_bank = IF And(value, \h7F) = 0 THEN 1 ELSE And(value, \h7F)]
    ELSE IF addr < \h6000
    THEN [c EXCEPT !.ram_rtc_select = value,
                   !.ram_bank = IF value <= \h03 THEN value ELSE @]
    ELSE Mbc3Latch(c, value)

\* the "ROM (MBC control)" lines of Memory.write
CartWrite(c, addr, value) ==
    IF c.kind = "MBC1" THEN Mbc1WriteRom(c, addr, value)
    ELSE IF c.kind = "MBC2" THEN Mbc2WriteRom(c, addr, value)
    ELSE IF c.kind = "MBC3" THEN Mbc3WriteRom(c, addr, value)
    ELSE IF c.kind = "MBC5" THEN Mbc5WriteRom(c, addr, value)
    ELSE c

\* the numpy array ram of a bank controller
RamGet(ram, i) == IF i \in DOMAIN ram THEN ram[i] ELSE 0

RamSet(ram, i, value) ==
    [a \in (IF value = 0 THEN DOMAIN ram \ {i} ELSE DOMAIN ram \cup {i}) |->
        IF a = i THEN value ELSE ram[a]]

\* a read_ram that does not look at ram_enabled
MbcReadRamOpen(c, addr) ==
    IF c.ram_len > 0 /\ c.ram_bank * \h2000 + (addr - \hA000) < c.ram_len
    THEN RamGet(c.ram, c.ram_bank * \h2000 + (addr - \hA000))
    ELSE \hFF

\* MBC.read_ram
MbcReadRam(c, addr) ==
    IF c.ram_enabled /\ c.ram_len > 0
       /\ c.ram_bank * \h2000 + (addr - \hA000) < c.ram_len
    THEN RamGet(c.ram, c.ram_bank * \h2000 + (addr - \hA000))
    ELSE \hFF

\* MBC2.read_ram
Mbc2ReadRam(c, addr) ==
    IF c.ram_enabled THEN Or(RamGet(c.ram, And(addr - \hA000, \h1FF)), \hF0)
    ELSE \hFF

\* MBC3.read_ram
Mbc3ReadRam(c, addr) ==
    IF ~c.ram_enabled THEN \hFF
    ELSE IF c.ram_rtc_select >= \h08 /\ c.ram_rtc_select <= \h0C
    THEN c.rtc_latched[c.ram_rtc_select - \h08]
    ELSE MbcReadRam(c, addr)

\* the "External RAM" lines of Memory.read
CartReadRam(c, addr) ==
    IF c.kind = "none" THEN \hFF
    ELSE IF c.kind = "MBC2" THEN Mbc2ReadRam(c, addr)
    ELSE IF c.kind = "MBC3" THEN Mbc3ReadRam(c, addr)
    ELSE MbcReadRam(c, addr)

\* MBC.write_ram
MbcWriteRam(c, addr, value) ==
    IF c.ram_enabled /\ c.ram_len > 0
       /\ c.ram_bank * \h2000 + (addr - \hA000) < c.ram_len
    THEN [c EXCEPT !.ram = RamSet(@, c.ram_bank * \h2000 + (addr - \hA000), value)]
    ELSE c

\* MBC2.write_ram
Mbc2WriteRam(c, addr, value) ==
    IF c.ram_enabled
    THEN [c EXCEPT !.ram = RamSet(@, And(addr - \hA000, \h1FF), And(value, \h0F))]
    ELSE c

\* MBC3.write_ram
Mbc3WriteRam(c, addr, value) ==
    IF ~c.ram_enabled THEN c
    ELSE IF c.ram_rtc_select >= \h08 /\ c.ram_rtc_select <= \h0C
    THEN [c EXCEPT !.rtc_registers = [@ EXCEPT ![c.ram_rtc_select - \h08] = value]]
    ELSE MbcWriteRam(c, addr, value)

\* the "External RAM" lines of Memory.write
CartWriteRam(c, addr, value) ==
    IF c.kind = "none" THEN c
    ELSE IF c.kind = "MBC2" THEN Mbc2WriteRam(c, addr, value)
    ELSE IF c.kind = "MBC3" THEN Mbc3WriteRam(c, addr, value)
    ELSE MbcWriteRam(c, addr, value)

\* what a read returned (err "none") or raised
Got(val) == [val |-> val, err |-> "none"]
Threw(err) == [val |-> -1, err |-> err]

\* self.rom[i]: numpy raises IndexError past the end of the array
RomAt(img, i) == IF i < img.len THEN Got(ImageByte(img, i)) ELSE Threw("IndexError")

\* a read_rom that always reads the switchable area from bank 1
MbcReadRomBank1(c, addr) ==
    IF addr < \h4000 THEN RomAt(c.img, addr)
    ELSE IF addr < c.img.len THEN RomAt(c.img, addr)
    ELSE Got(\hFF)

\* MBC.read_rom
MbcReadRom(c, addr) ==
    IF addr < \h4000 THEN RomAt(c.img, addr)
    ELSE IF c.rom_bank * \h4000 + (addr - \h4000) < c.img.len
    THEN RomAt(c.img, c.rom_bank * \h4000 + (addr - \h4000))
    ELSE Got(\hFF)

\* the "ROM" lines of Memory.read
CartRead(c, addr) == IF c.kind = "none" THEN Got(\hFF) ELSE MbcReadRom(c, addr)

\* Memory.read with the bank controller c: what it returned or raised
MemRead(m, c, a) ==
    IF a % 65536 < \h8000 THEN CartRead(c, a % 65536)
    ELSE IF a % 65536 >= \hA000 /\ a % 65536 < \hC000
    THEN Got(CartReadRam(c, a % 65536))
    ELSE Got(ReadRam(m, a))

\* Memory.write with the bank controller c: the memory and the controller
\* after it
MemWrite(m, c, a, v) ==
    IF a % 65536 < \h8000
    THEN [mem |-> m, mbc |-> CartWrite(c, a % 65536, v % 256)]
    ELSE IF a % 65536 >= \hA000 /\ a % 65536 < \hC000
    THEN [mem |-> m, mbc |-> CartWriteRam(c, a % 65536, v % 256)]
    ELSE [mem |-> Write(m, a, v), mbc |-> c]

\* Memory._init_io on the registers io: the registers it assigns get their
\* boot values, the others stay
InitIoOver(io, cgb) ==
    [r \in IoRegs |->
        IF ~cgb /\ r \in {\h4D, \h4F, \h51, \h52, \h53, \h54, \h55, \h70} THEN io[r]
        ELSE InitIo(cgb)[r]]

\* Memory.load_rom of an image of at least 0x150 bytes: the memory after it
MemLoadRom(m, img) ==
    [m EXCEPT !.cgb_mode = (And(ImageByte(img, \h143), \h80) # 0),
              !.io = InitIoOver(m.io, And(ImageByte(img, \h143), \h80) # 0)]

\* Memory.load_rom of an image of at least 0x150 bytes: the controller made
MbcLoadRom(img) ==
    NewMbc(MbcClass(ImageByte(img, \h147)), img, RamSize(ImageByte(img, \h149)))

\* Emulator.load_rom: the machine after it and what it returned; the
\* ValueError of Memory.load_rom for a short image is caught
LoadRom(y, c, img) ==
    IF img.len < \h150 THEN [sys |-> y, mbc |-> c, ret |-> FALSE]
    ELSE [sys |-> Sys(IF And(ImageByte(img, \h143), \h80) # 0
                      THEN InitGbcMode(y.cpu) ELSE y.cpu,
                      MemLoadRom(y.mem, img), y.ppu,
                      [y.emu EXCEPT !.rom_loaded = TRUE,
                                    !.cgb_mode = (And(ImageByte(img, \h143), \h80) # 0)]),
          mbc |-> MbcLoadRom(img), ret |-> TRUE]

----------------------------------------------------------------------------
(* SpecCart: Emulator.load_rom, and Memory.read and Memory.write in the    *)
(* ROM area, from the emulator as constructed.  Here rom holds the bank    *)
(* controller (Memory.mbc) and last the call made and what it returned.    *)

\* the ROM images loaded: too short by a byte, header only, 32 KiB and
\* 128 KiB; without controller, MBC1 and a cartridge type that is no key of
\* mbc_types; RAM size codes 0 and 9
CartImages ==
    {[len |-> n, cart_type |-> t, ram_code |-> r, cgb_flag |-> 0, seed |-> 5] :
        n \in {\h14F, \h150, \h8000, \h20000}, t \in {\h00, \h01, \hFC},
        r \in {\h00, \h09}}

\* the addresses read
CartReads == {\h0000, \h0150, \h3FFF, \h4000, \h7FFF}

\* the bank-control writes
CartWrites ==
    {<<a, v>> : a \in {\h0000, \h2000, \h4000, \h6000},
                v \in {\h00, \h03, \h0A, \h20, \h61}}

\* Memory.__init__: no register has its boot value yet
BareMemory == [NewMemory(FALSE) EXCEPT !.io = [r \in IoRegs |-> 0]]

\* what last holds
CartLast(op, addr, value, got, ret, img) ==
    [op |-> op, addr |-> addr, value |-> value, val |-> got.val,
     err |-> got.err, ret |-> ret, img |-> img]

InitCart ==
    /\ cpu = NewCpuDmg
    /\ mem = BareMemory
    /\ rom = NoMbc
    /\ ppu = NewPpu
    /\ emu = [frame_cycles |-> 0, total_frames |-> 0, paused |-> FALSE,
              debug_enabled |-> FALSE, breakpoints |-> {}, in_frame |-> FALSE,
              cgb_mode |-> FALSE, rom_loaded |-> FALSE]
    /\ last = CartLast("init", 0, 0, Got(0), FALSE, NoMbc)
    /\ hist = NewHist

\* the state after an Emulator.load_rom that left l
LoadRomTo(l, img) ==
    /\ cpu' = l.sys.cpu
    /\ mem' = l.sys.mem
    /\ emu' = l.sys.emu
    /\ rom' = l.mbc
    /\ last' = CartLast("load_rom", 0, 0, Got(0), l.ret, img)
    /\ UNCHANGED <<ppu, hist>>

\* Emulator.load_rom of a file holding the image img
LoadRomCall ==
    \E img \in CartImages : LoadRomTo(LoadRom(Sys(cpu, mem, ppu, emu), rom, img), img)

\* Memory.write(addr, value) in the ROM area
CartWriteCall ==
    \E w \in CartWrites :
        /\ rom' = CartWrite(rom, w[1], w[2])
        /\ last' = CartLast("write", w[1], w[2], Got(0), FALSE, NoMbc)
        /\ UNCHANGED <<cpu, mem, ppu, emu, hist>>

\* Memory.read(addr) in the ROM area
CartReadCall ==
    \E a \in CartReads :
        /\ last' = CartLast("read", a, 0, CartRead(rom, a), FALSE, NoMbc)
        /\ UNCHANGED <<cpu, mem, rom, ppu, emu, hist>>

NextCart == LoadRomCall \/ CartWriteCall \/ CartReadCall

SpecCart == InitCart /\ [][NextCart]_vars

----------------------------------------------------------------------------
(* SpecMem: Memory.read, Memory.write and Memory.set_button over the whole *)
(* address space, on an emulator that has loaded a ROM.  Here rom holds    *)
(* the bank controller, hist the writes and button changes made and last   *)
(* the call made and what it returned.                                     *)

\* the ROM images loaded: 32 KiB without controller for the DMG, 128 KiB
\* with MBC1 and 32 KiB of RAM for the GBC, and a header-only image
MemImages ==
    {[len |-> \h8000, cart_type |-> \h00, ram_code |-> \h00, cgb_flag |-> \h00,
      seed |-> 5],
     [len |-> \h20000, cart_type |-> \h03, ram_code |-> \h03, cgb_flag |-> \h80,
      seed |-> 5],
     [len |-> \h150, cart_type |-> \h00, ram_code |-> \h00, cgb_flag |-> \h00,
      seed |-> 5]}

\* the (address, value) pairs written: a byte to the ends of VRAM, of the
\* WRAM banks, of the echo area, of OAM, of the unusable area and of HRAM
\* and to cartridge RAM, and the RAM enable, the VRAM and WRAM bank
\* registers and the joypad select
MemWrites ==
    {<<a, \h5A>> : a \in {\h8000, \hC000, \hD000, \hDDFF, \hE000, \hFDFF,
                          \hFE00, \hFE9F, \hFEA0, \hFEFF, \hFF80, \hFFFE, \hA000}}
    \cup {<<\h0000, \h0A>>, <<\hFF4F, \h01>>, <<\hFF4F, \hFE>>,
          <<\hFF70, \h02>>, <<\hFF70, \h08>>, <<\hFF70, \hFF>>,
          <<\hFF00, \h00>>, <<\hFF00, \h10>>, <<\hFF00, \h20>>, <<\hFF00, \hFF>>}

\* the addresses read, two of them outside 0..0xFFFF
MemReads ==
    {\h0000, \h0200, \h4000, \h8000, \hA000, \hC000, \hD000, \hE000, \hFDFF,
     \hFE00, \hFEA0, \hFEFF, \hFF00, \hFF80, \hFFFF, \h1C000, -1}

\* what last holds
MemLast(op, addr, value, got) ==
    [op |-> op, addr |-> addr, value |-> value, val |-> got.val, err |-> got.err]

\* the machine as constructed
BareSys ==
    Sys(NewCpuDmg, BareMemory, NewPpu,
        [frame_cycles |-> 0, total_frames |-> 0, paused |-> FALSE,
         debug_enabled |-> FALSE, breakpoints |-> {}, in_frame |-> FALSE,
         cgb_mode |-> FALSE, rom_loaded |-> FALSE])

\* the state after the Emulator.load_rom that left l
InitMemFrom(l) ==
    /\ cpu = l.sys.cpu
    /\ mem = l.sys.mem
    /\ rom = l.mbc
    /\ ppu = l.sys.ppu
    /\ emu = l.sys.emu
    /\ last = MemLast("init", 0, 0, Got(0))
    /\ hist = [writes |-> 0, pressed |-> {}]

InitMem == \E img \in MemImages : InitMemFrom(LoadRom(BareSys, NoMbc, img))

\* the state after a Memory.write that left w
MemWriteTo(w, addr, value) ==
    /\ mem' = w.mem
    /\ rom' = w.mbc
    /\ last' = MemLast("write", addr, value, Got(0))
    /\ hist' = [hist EXCEPT !.writes = @ + 1]
    /\ UNCHANGED <<cpu, ppu, emu>>

\* Memory.write(addr, value)
MemWriteCall ==
    \E w \in MemWrites :
        /\ hist.writes < MaxMemWrites
        /\ MemWriteTo(MemWrite(mem, rom, w[1], w[2]), w[1], w[2])

\* Memory.read(addr)
MemReadCall ==
    \E a \in MemReads :
        /\ last' = MemLast("read", a, 0, MemRead(mem, rom, a))
        /\ UNCHANGED <<cpu, mem, rom, ppu, emu, hist>>

\* Memory.set_button(button, pressed)
SetButtonCall ==
    \E button \in {0, 7}, pressed \in BOOLEAN :
        /\ hist.writes < MaxMemWrites
        /\ mem' = SetButton(mem, button, pressed)
        /\ last' = MemLast("set_button", button, IF pressed THEN 1 ELSE 0, Got(0))
        /\ hist' = [hist EXCEPT !.writes = @ + 1,
                                !.pressed = IF pressed THEN @ \cup {button}
                                            ELSE @ \ {button}]
        /\ UNCHANGED <<cpu, rom, ppu, emu>>

NextMem == MemWriteCall \/ MemReadCall \/ SetButtonCall

SpecMem == InitMem /\ [][NextMem]_vars

----------------------------------------------------------------------------
(* SpecRtc: Memory.write and Memory.read on an emulator that has loaded an *)
(* MBC3 cartridge with clock.  Here rom holds the bank controller, hist    *)
(* the writes made and the value last written to 0x6000-0x7FFF (-1 before  *)
(* the first) and last the call made and what it returned.                 *)

\* the ROM images loaded: MBC3+TIMER+RAM+BATTERY with 32 KiB of RAM, and
\* MBC3+TIMER+BATTERY without RAM
RtcImages ==
    {[len |-> \h8000, cart_type |-> \h10, ram_code |-> \h03, cgb_flag |-> \h00,
      seed |-> 5],
     [len |-> \h8000, cart_type |-> \h0F, ram_code |-> \h00, cgb_flag |-> \h00,
      seed |-> 5]}

\* the (address, value) pairs written: RAM enable and disable, the select
\* of RTC seconds, of RTC day-high and of RAM bank 0, the latch register,
\* and a byte to the selected RAM or RTC register
RtcWrites ==
    {<<\h0000, \h0A>>, <<\h0000, \h00>>,
     <<\h4000, \h08>>, <<\h4000, \h0C>>, <<\h4000, \h00>>,
     <<\h6000, \h00>>, <<\h6000, \h01>>, <<\h7FFF, \h05>>,
     <<\hA000, \h11>>, <<\hBFFF, \h3B>>}

\* the addresses read
RtcReads == {\hA000, \hBFFF}

InitRtcFrom(l) ==
    /\ cpu = l.sys.cpu
    /\ mem = l.sys.mem
    /\ rom = l.mbc
    /\ ppu = l.sys.ppu
    /\ emu = l.sys.emu
    /\ last = MemLast("init", 0, 0, Got(0))
    /\ hist = [writes |-> 0, latch |-> -1]

InitRtc == \E img \in RtcImages : InitRtcFrom(LoadRom(BareSys, NoMbc, img))

\* the state after a Memory.write that left w
RtcWriteTo(w, addr, value) ==
    /\ mem' = w.mem
    /\ rom' = w.mbc
    /\ last' = MemLast("write", addr, value, Got(0))
    /\ hist' = [hist EXCEPT !.writes = @ + 1,
                            !.latch = IF addr \in \h6000 .. \h7FFF THEN value ELSE @]
    /\ UNCHANGED <<cpu, ppu, emu>>

\* Memory.write(addr, value)
RtcWriteCall ==
    \E w \in RtcWrites :
        /\ hist.writes < MaxRtcWrites
        /\ RtcWriteTo(MemWrite(mem, rom, w[1], w[2]), w[1], w[2])

\* Memory.read(addr)
RtcReadCall ==
    \E a \in RtcReads :
        /\ last' = MemLast("read", a, 0, MemRead(mem, rom, a))
        /\ UNCHANGED <<cpu, mem, rom, ppu, emu, hist>>

NextRtc == RtcWriteCall \/ RtcReadCall

SpecRtc == InitRtc /\ [][NextRtc]_vars

----------------------------------------------------------------------------
(* SpecRam: Memory.write and Memory.read on the cartridge RAM of each kind *)
(* of bank controller.  Here rom holds the bank controller, hist the       *)
(* writes made and whether the last write to 0x0000-0x1FFF had the low     *)
(* nibble 0x0A, and last the call made and what it returned.               *)

\* the ROM images loaded: no controller, MBC1 and MBC3 and MBC5 with 8 KiB
\* of RAM, and MBC2
RamImages ==
    {[len |-> \h8000, cart_type |-> t, ram_code |-> IF t \in {\h00, \h06} THEN 0 ELSE 2,
      cgb_flag |-> \h00, seed |-> 5] : t \in {\h00, \h03, \h06, \h13, \h1B}}

\* the (address, value) pairs written: RAM enable and disable, 0x0A to the
\* addresses MBC2 decodes by bit 8, RAM bank 1 (MBC3, MBC5) and the RTC
\* seconds, MBC1's RAM banking mode, and a byte to either end of the RAM
\* window
RamWrites ==
    {<<\h0000, \h0A>>, <<\h1FFF, \h00>>, <<\h0100, \h0A>>, <<\h2000, \h0A>>,
     <<\h4000, \h01>>, <<\h4000, \h08>>, <<\h6000, \h01>>,
     <<\hA000, \h5A>>, <<\hBFFF, \h3C>>}

\* the addresses read
RamReads == {\hA000, \hBFFF}

InitRamFrom(l) ==
    /\ cpu = l.sys.cpu
    /\ mem = l.sys.mem
    /\ rom = l.mbc
    /\ ppu = l.sys.ppu
    /\ emu = l.sys.emu
    /\ last = MemLast("init", 0, 0, Got(0))
    /\ hist = [writes |-> 0, enable |-> FALSE]

InitRam == \E img \in RamImages : InitRamFrom(LoadRom(BareSys, NoMbc, img))

\* the state after a Memory.write that left w
RamWriteTo(w, addr, value) ==
    /\ mem' = w.mem
    /\ rom' = w.mbc
    /\ last' = MemLast("write", addr, value, Got(0))
    /\ hist' = [hist EXCEPT !.writes = @ + 1,
                            !.enable = IF addr \in \h0000 .. \h1FFF
                                       THEN value % 16 = \h0A ELSE @]
    /\ UNCHANGED <<cpu, ppu, emu>>

\* Memory.write(addr, value)
RamWriteCall ==
    \E w \in RamWrites :
        /\ hist.writes < MaxRamWrites
        /\ RamWriteTo(MemWrite(mem, rom, w[1], w[2]), w[1], w[2])

\* Memory.read(addr)
RamReadCall ==
    \E a \in RamReads :
        /\ last' = MemLast("read", a, 0, MemRead(mem, rom, a))
        /\ UNCHANGED <<cpu, mem, rom, ppu, emu, hist>>

NextRam == RamWriteCall \/ RamReadCall

SpecRam == InitRam /\ [][NextRam]_vars

----------------------------------------------------------------------------
(* Properties of the interrupt dispatch, EI/DI and HALT, under SpecIrq.    *)

\* C1: a CPU.step entered with IME set and IE & IF & 0x1F nonzero fetches
\* no opcode: it takes the lowest-numbered pending bit, clears only that bit
\* in IF, clears IME, pushes the old PC (SP down by 2, low byte at SP, high
\* byte at SP+1), sets PC to 0x40 + 8*bit and returns 20.
C1_Dispatch ==
    [][(last'.op = "cpu_step" /\ cpu.ime /\ Pending(mem) # 0) =>
        LET p == Pending(mem)
            bit == CHOOSE b \in 0 .. 4 :
                       Bit(p, b) = 1 /\ \A c \in 0 .. 4 : Bit(p, c) = 1 => b <= c
        IN  /\ last'.kind = "dispatch"
            /\ last'.opcode = -1
            /\ rom' = rom
            /\ Bit(mem'.io[\h0F], bit) = 0
            /\ \A c \in (0 .. 7) \ {bit} : Bit(mem'.io[\h0F], c) = Bit(mem.io[\h0F], c)
            /\ ~cpu'.ime
            /\ cpu'.sp = cpu.sp - 2
            /\ Read(mem', rom', cpu'.sp) = cpu.pc % 256
            /\ Read(mem', rom', cpu'.sp + 1) = cpu.pc \div 256
            /\ cpu'.pc = \h40 + 8 * bit
            /\ last'.ret = 20]_vars

\* the dispatch of VBlank from PC=0x0150, SP=0xFFFE, IE=IF=0x01
C1_Witness ==
    /\ last.op = "cpu_step" /\ last.kind = "dispatch" /\ last.ret = 20
    /\ rom = <<>>
    /\ cpu.pc = \h40 /\ cpu.sp = \hFFFC /\ ~cpu.ime
    /\ Read(mem, rom, \hFFFC) = \h50 /\ Read(mem, rom, \hFFFD) = \h01
    /\ mem.ie = \h01 /\ mem.io[\h0F] = \h00

\* C3: after EI has executed with IME clear and an enabled interrupt
\* pending, the next CPU.step executes the instruction that follows EI, it
\* does not dispatch; and a step that executes DI leaves IME clear.
C3_EiDelay ==
    [][/\ (/\ last.op = "cpu_step" /\ last.kind = "exec" /\ last.opcode = \hFB
           /\ ~cpu.ime /\ Pending(mem) # 0
           /\ last'.op = "cpu_step")
          => (last'.kind = "exec" /\ last'.at = cpu.pc)
       /\ (last'.op = "cpu_step" /\ last'.kind = "exec" /\ last'.opcode = \hF3)
          => ~cpu'.ime]_vars

\* C7: a step of a halted CPU with no enabled interrupt pending returns 4
\* and leaves PC, SP and the registers as they were; a step of a halted CPU
\* with IME set and an enabled interrupt pending leaves HALT and dispatches,
\* pushing the address after the HALT, which is where PC has stayed.
C7_Halt ==
    /\ [](cpu.halted => (cpu.pc - 1) \in DOMAIN rom /\ rom[cpu.pc - 1] = \h76)
    /\ [][/\ (cpu.halted /\ Pending(mem) = 0 /\ last'.op = "cpu_step")
             => /\ last'.kind = "halt" /\ last'.ret = 4
                /\ cpu'.halted
                /\ cpu'.pc = cpu.pc /\ cpu'.sp = cpu.sp
                /\ \A g \in {"a", "f", "b", "c", "d", "e", "h", "l"} : cpu'[g] = cpu[g]
                /\ mem' = mem
          /\ (cpu.halted /\ Pending(mem) # 0 /\ cpu.ime /\ last'.op = "cpu_step")
             => /\ last'.kind = "dispatch"
                /\ ~cpu'.halted
                /\ cpu'.sp = cpu.sp - 2
                /\ ReadWord(mem', rom', cpu'.sp) = cpu.pc
                /\ cpu'.pc \in {\h40, \h48, \h50}]_vars

\* a dispatch has woken the CPU from a HALT: the word pushed is the address
\* after a HALT instruction
C7_Witness ==
    /\ last.op = "cpu_step" /\ last.kind = "dispatch"
    /\ ~cpu.halted /\ ~cpu.ime
    /\ cpu.sp = \hFFFC
    /\ (ReadWord(mem, rom, cpu.sp) - 1) \in DOMAIN rom
    /\ rom[ReadWord(mem, rom, cpu.sp) - 1] = \h76

\* C8: after HALT has executed with IME clear and an enabled interrupt
\* pending, the next CPU.step executes the instruction that follows the
\* HALT: nothing is dispatched, the CPU is halted afterwards only if that
\* instruction is a HALT again, and IF, IE, IME, SP and the stack are as
\* they were.
C8_HaltNoIme ==
    [][(/\ last.op = "cpu_step" /\ last.kind = "exec" /\ last.opcode = \h76
        /\ cpu.halted /\ ~cpu.ime /\ Pending(mem) # 0
        /\ last'.op = "cpu_step")
       => /\ last'.kind = "exec"
          /\ last'.at = cpu.pc
          /\ cpu'.halted <=> (last'.opcode = \h76)
          /\ ~cpu'.ime
          /\ cpu'.sp = cpu.sp
          /\ mem' = mem]_vars

\* the NOP after a HALT at the entry point has run, VBlank enabled and
\* pending throughout with IME clear, and nothing was pushed
C8_Witness ==
    /\ last.op = "cpu_step" /\ last.kind = "exec"
    /\ last.opcode = \h00 /\ last.at = EntryPc + 1
    /\ EntryPc \in DOMAIN rom /\ rom[EntryPc] = \h76
    /\ ~cpu.halted /\ ~cpu.ime /\ ~cpu.ime_scheduled
    /\ mem.ie = \h01 /\ mem.io[\h0F] = \h01
    /\ cpu.sp = StackTop

----------------------------------------------------------------------------
(* Properties of the flag register, the undefined opcodes and the CB-      *)
(* prefixed bit instructions, under SpecOps.                               *)

\* C4: in every reachable CPU state (after construction, after
\* init_gbc_mode, after every CPU.step, POP AF and the flag updates among
\* them) the low four bits of F are zero.
C4_FlagNibble == And(cpu.f, \h0F) = 0

\* POP AF has loaded F from a stack byte whose low four bits are not zero
C4_Witness ==
    /\ last.op = "cpu_step" /\ last.kind = "exec" /\ last.opcode = \hF1
    /\ last.err = "none"
    /\ HramGet(mem.hram, cpu.sp - 2) % 16 # 0
    /\ cpu.f = (HramGet(mem.hram, cpu.sp - 2) \div 16) * 16
    /\ cpu.a = HramGet(mem.hram, cpu.sp - 1)

\* C5: a CPU.step that fetches an undefined opcode byte behaves as a NOP:
\* no error is raised, it returns 4, PC has advanced by 1 and no other
\* register and no memory byte has changed.
C5_UndefinedIsNop ==
    [][(/\ last'.op = "cpu_step" /\ last'.kind = "exec"
        /\ last'.opcode \in UndefinedOpcodes)
       => /\ last'.err = "none"
          /\ last'.ret = 4
          /\ cpu'.pc = last'.at + 1
          /\ cpu'.sp = cpu.sp
          /\ \A g \in {"a", "f", "b", "c", "d", "e", "h", "l"} : cpu'[g] = cpu[g]
          /\ mem' = mem]_vars

\* C6: a CPU.step that fetches CB-prefixed SET b,r (0xC0..0xFF) or RES b,r
\* (0x80..0xBF) with a register operand completes, returns 8, sets (clears)
\* bit b of r and leaves the other bits of r, the flags, the other
\* registers, SP and memory unchanged.
C6_SetRes ==
    [][(/\ last'.op = "cpu_step" /\ last'.kind = "exec"
        /\ last'.opcode \in \hCB80 .. \hCBFF)
       => LET cb == last'.opcode - \hCB00
              b == (cb \div 8) % 8
              r == Regs[(cb % 8) + 1]
              old == cpu[r]
              new == IF cb >= \hC0 THEN Or(old, Pow2(b)) ELSE AndNot(old, Pow2(b))
          IN  /\ last'.err = "none"
              /\ last'.ret = 8
              /\ cpu'[r] = new
              /\ \A g \in {"a", "f", "b", "c", "d", "e", "h", "l"} \ {r} :
                     cpu'[g] = cpu[g]
              /\ cpu'.sp = cpu.sp
              /\ cpu'.pc = last'.at + 2
              /\ mem' = mem]_vars

----------------------------------------------------------------------------
(* Properties of the timer interrupt and of STOP, under Spec.              *)

\* C2: when TIMA has overflowed during the timer update of an
\* Emulator.step, bit 2 of IF is set when that Emulator.step returns.
C2_TimerIrqStays ==
    (last.op = "emu_step" /\ last.overflow) => Bit(mem.io[\h0F], 2) = 1

\* C9: when a button has been pressed while the CPU is stopped, the next
\* Emulator.step ends the stopped state.
C9_ButtonEndsStop ==
    [][(cpu.stopped /\ last.op = "press_button" /\ last'.op = "emu_step")
       => ~cpu'.stopped]_vars

\* C38: after every Emulator.step the LY register (read at 0xFF44) is the
\* PPU's scanline counter and bits 0-1 of STAT (read at 0xFF41) are the
\* PPU's mode.
C38_LyStatMirror ==
    last.op = "emu_step"
    => /\ ReadRam(mem, \hFF44) = ppu.ly
       /\ ReadRam(mem, \hFF41) % 4 = ppu.mode

----------------------------------------------------------------------------
(* Properties of the cycle counts, under SpecOps.                          *)

\* C36: every CPU.step returns a cycle count, between 4 and 24 (so that
\* the loop of Emulator.run_frame, which adds the counts up to 70224, comes
\* to its end).
C36_StepCycles ==
    last.op = "cpu_step" => last.err = "none" /\ last.ret \in 4 .. 24

----------------------------------------------------------------------------
(* Properties of the frame loop, under SpecFrame.                          *)

\* C10 as stated: after every return of Emulator.run_frame, whatever the
\* program (programs that write LCDC among them), LY is 0 and the mode is
\* OAM or V-Blank.
C10_FrameEnd ==
    last.op = "run_frame" => ppu.ly = 0 /\ ppu.mode \in {MODE_OAM, MODE_VBLANK}

\* C10 amended: after a return of Emulator.run_frame that no breakpoint
\* cut short, if the LCD was enabled at every PPU.step so far, LY is 0 and
\* the mode is OAM.
C10_FrameEndLcdOn ==
    (last.op = "run_frame" /\ last.kind = "full" /\ ~hist.lcd_skipped)
        => ppu.ly = 0 /\ ppu.mode = MODE_OAM /\ mem.io[\h44] = 0

\* a whole frame has run with the LCD on throughout and run_frame has
\* returned
C10_Witness ==
    /\ last.op = "run_frame" /\ last.kind = "full" /\ ~hist.lcd_skipped
    /\ emu.total_frames = 1 /\ ~emu.paused /\ ~emu.in_frame
    /\ emu.frame_cycles \in 0 .. 11
    /\ ppu.frame_count = 1
    /\ ppu.ly = 0 /\ ppu.mode = MODE_OAM

\* C11 as stated: a call of Emulator.run_frame that started at a frame
\* boundary with the LCD on has, when it returns, seen exactly one V-Blank
\* interrupt asserted by the PPU, the frame counter grown by exactly 1, and
\* LY wrapped from 153 to 0.
C11_OneVBlank ==
    (last.op = "run_frame" /\ hist.boundary)
        => /\ hist.vblanks = 1
           /\ ppu.frame_count = hist.fc0 + 1
           /\ hist.wraps = 1 /\ ppu.ly = 0

\* C11 amended: a call of Emulator.run_frame that started at a frame
\* boundary with the LCD on, ran to the cycle target (no breakpoint) and
\* had the LCD on at every PPU.step has seen exactly one V-Blank interrupt
\* asserted, the frame counter grown by exactly 1 and LY wrapped from 153
\* to 0 once; and whenever PPU.step asserts the V-Blank interrupt the PPU
\* has just entered V-Blank at LY = 144.
C11_OneVBlankLcdOn ==
    /\ (last.op = "run_frame" /\ last.kind = "full" /\ hist.boundary
            /\ ~hist.call_skipped)
        => /\ hist.vblanks = 1
           /\ ppu.frame_count = hist.fc0 + 1
           /\ hist.wraps = 1 /\ ppu.ly = 0
    /\ (last.op = "emu_step" /\ And(last.irq, 1) # 0)
        => ppu.ly = SCANLINES_VISIBLE /\ ppu.mode = MODE_VBLANK

\* a call from the first frame boundary has returned after a whole frame
\* with the LCD on: one V-Blank interrupt, one wrap of LY, one frame counted
C11_Witness ==
    /\ last.op = "run_frame" /\ last.kind = "full"
    /\ hist.boundary /\ ~hist.call_skipped
    /\ hist.vblanks = 1 /\ hist.wraps = 1
    /\ hist.fc0 = 0 /\ ppu.frame_count = 1
    /\ emu.total_frames = 1

\* C39: when Emulator.run_frame has returned, at its cycle target or at a
\* breakpoint, frame_cycles is not negative.
C39_FrameCycles == last.op = "run_frame" => emu.frame_cycles >= 0

----------------------------------------------------------------------------
(* Properties of the H-Blank DMA and of STAT, under SpecIo.                *)

\* C12: for an H-Blank DMA armed in GBC mode by writing n|0x80 to 0xFF55
\* and neither cancelled nor re-armed, after k entries to H-Blank exactly
\* min(k, (n & 0x7F)+1) blocks of 16 bytes have been copied from the source
\* to VRAM and nothing else in VRAM has changed; it is armed until
\* (n & 0x7F)+1 blocks are copied, 0xFF55 holding the blocks left minus 1,
\* and not armed afterwards, 0xFF55 holding 0xFF.
C12_HdmaBlocks ==
    hist.armed # -1 =>
        LET blocks == And(hist.armed, \h7F) + 1
            done == IF hist.hblanks < blocks THEN hist.hblanks ELSE blocks
            span == 0 .. blocks * 16 + 15
            region == {(hist.dst0 + i) % \h2000 : i \in span}
        IN  /\ mem.hdma_active <=> hist.hblanks < blocks
            /\ mem.hdma_active =>
                   /\ mem.io[\h55] = blocks - hist.hblanks - 1
                   /\ mem.dma_length = (blocks - hist.hblanks) * 16
            /\ ~mem.hdma_active => mem.io[\h55] = \hFF
            /\ \A i \in span :
                   VramGet(mem.vram, 0, (hist.dst0 + i) % \h2000) =
                       IF i < done * 16 THEN ReadRam(mem, hist.src0 + i)
                       ELSE VramGet(hist.vram0, 0, (hist.dst0 + i) % \h2000)
            /\ \A k \in DOMAIN mem.vram \cup DOMAIN hist.vram0 :
                   (k[1] # 0 \/ k[2] \notin region) =>
                       VramGet(mem.vram, k[1], k[2]) = VramGet(hist.vram0, k[1], k[2])

\* a transfer armed with 0x82 has ended after three H-Blanks: 48 bytes of
\* HRAM stand in VRAM from offset 0x1FF0 on, wrapping to offset 0
C12_Witness ==
    /\ hist.armed = \h82 /\ hist.hblanks = 3
    /\ ~mem.hdma_active /\ mem.io[\h55] = \hFF
    /\ hist.dst0 = \h1FF0
    /\ VramGet(mem.vram, 0, \h1FF0) = \h11
    /\ VramGet(mem.vram, 0, \h001F) = \h40
    /\ VramGet(mem.vram, 0, \h0020) = 0

\* C13: a write of a value with bit 7 clear to 0xFF55 while an H-Blank DMA
\* is armed stops the transfer and copies nothing, and 0xFF55 then reads as
\* what it held before the write with bit 7 set, whatever was written.
C13_CancelKeepsRemaining ==
    [][(/\ mem.hdma_active
        /\ last'.op = "write" /\ last'.addr = \hFF55 /\ last'.value < \h80)
       => /\ ~mem'.hdma_active
          /\ mem'.vram = mem.vram
          /\ ReadRam(mem', \hFF55) = Or(mem.io[\h55], \h80)]_vars

\* C37: while an H-Blank DMA is armed 0xFF55 reads a value v with bit 7
\* clear and (v + 1) * 16 is the number of bytes still to be copied; a
\* PPU.step that enters H-Blank copies the next block of 16 bytes and takes
\* 16 off that number, or, when the block was the last, ends the transfer
\* with 0xFF55 reading 0xFF; a PPU.step that enters no H-Blank, or any
\* PPU.step with no transfer armed, leaves VRAM and the transfer as they
\* were.
C37_HdmaRemaining ==
    [][/\ mem'.hdma_active
          => /\ ReadRam(mem', \hFF55) < \h80
             /\ (ReadRam(mem', \hFF55) + 1) * 16 = mem'.dma_length
       /\ (last'.op = "ppu_step" /\ mem.hdma_active /\ last'.entered)
          => /\ \A i \in 0 .. 15 :
                   VramGet(mem'.vram, mem.vram_bank, (mem.dma_dest + i) % \h2000)
                       = ReadRam(mem, mem.dma_source + i)
             /\ IF mem.dma_length > 16
                THEN mem'.hdma_active /\ mem'.dma_length = mem.dma_length - 16
                ELSE ~mem'.hdma_active /\ ReadRam(mem', \hFF55) = \hFF
       /\ (last'.op = "ppu_step" /\ ~(mem.hdma_active /\ last'.entered))
          => /\ mem'.vram = mem.vram
             /\ mem'.hdma_active = mem.hdma_active
             /\ mem'.dma_length = mem.dma_length
             /\ ReadRam(mem', \hFF55) = ReadRam(mem, \hFF55)]_vars

\* a transfer of one block has ended at the first H-Blank, and the PPU has
\* entered a further H-Blank with 0xFF55 still reading 0xFF
C37_Witness ==
    /\ hist.armed = \h80 /\ hist.hblanks = 2
    /\ last.op = "ppu_step" /\ last.entered
    /\ ~mem.hdma_active /\ ReadRam(mem, \hFF55) = \hFF
    /\ VramGet(mem.vram, 0, hist.dst0) = ReadRam(mem, hist.src0)

\* C20: a write to 0xFF41 leaves bits 0-2 of STAT as they were.
C20_StatLowBits ==
    [][(last'.op = "write" /\ last'.addr = \hFF41)
       => And(ReadRam(mem', \hFF41), \h07) = And(ReadRam(mem, \hFF41), \h07)]_vars

----------------------------------------------------------------------------
(* Properties of the timer, under SpecTimer.                               *)

\* C14 as stated: from TAC=0x05, TIMA=0xFE, TMA=0xAA, IF=0 and a zero TIMA
\* counter, 48 cycles through update_timer leave TIMA=0xAA and IF bit 2 set.
C14_Timer48 ==
    (hist.setup = "fast" /\ hist.t = 48)
        => mem.io[\h05] = \hAA /\ Bit(mem.io[\h0F], 2) = 1

\* C14 amended: from TAC=0x05, TIMA=0xFE, TMA=0xAA, IF=0 and a zero TIMA
\* counter, 48 cycles through update_timer, in any split into calls, leave
\* TIMA=0xAB and IF bit 2 set; 32 cycles leave TIMA=0xAA and IF bit 2 set.
C14_Timer48Reloaded ==
    /\ (hist.setup = "fast" /\ hist.t = 48)
           => mem.io[\h05] = \hAB /\ Bit(mem.io[\h0F], 2) = 1
    /\ (hist.setup = "fast" /\ hist.t = 32)
           => mem.io[\h05] = \hAA /\ Bit(mem.io[\h0F], 2) = 1

\* 48 cycles have passed in three calls of 16
C14_Witness ==
    /\ hist.setup = "fast" /\ hist.t = 48 /\ hist.calls = 3
    /\ last.op = "update_timer" /\ last.arg = 16
    /\ mem.io[\h05] = \hAB /\ mem.io[\h0F] = \h04 /\ mem.tima_counter = 0

\* C15: after a write to 0xFF04, whatever the value, DIV reads 0 and the
\* divider counter is 0; after N cycles through update_timer since that
\* write, in any split into calls, DIV reads floor(N/256) mod 256.
C15_Div ==
    hist.n # -1 =>
        /\ ReadRam(mem, \hFF04) = (hist.n \div 256) % 256
        /\ mem.div_counter = hist.n % 256
        /\ last.op = "write_div" => ReadRam(mem, \hFF04) = 0 /\ mem.div_counter = 0

\* 65792 cycles after a write of 0x5A to DIV, DIV has wrapped and reads 1
C15_Witness ==
    /\ hist.n = 65536 + 256
    /\ mem.io[\h04] = 1 /\ mem.div_counter = 0
    /\ last.op = "update_timer"

----------------------------------------------------------------------------
(* Properties of the bank controllers and of load_rom, under SpecCart.     *)

\* C16: after any sequence of MBC1 control writes the lower ROM latch is in
\* 1..31, a write to 0x2000-0x3FFF whose low 5 bits are 0 having stored 1;
\* in mode 0 rom_bank = (upper<<5)|lower, which is none of 0x00, 0x20, 0x40,
\* 0x60; in mode 1 rom_bank = lower and ram_bank = upper.
C16_Mbc1Banks ==
    rom.kind = "MBC1" =>
        /\ rom.rom_bank_low \in 1 .. 31
        /\ rom.rom_bank_high \in 0 .. 3
        /\ (last.op = "write" /\ last.addr \in \h2000 .. \h3FFF) =>
               rom.rom_bank_low =
                   IF last.value % 32 = 0 THEN 1 ELSE last.value % 32
        /\ rom.mode = 0 =>
               /\ rom.rom_bank = rom.rom_bank_high * 32 + rom.rom_bank_low
               /\ rom.rom_bank \notin {\h00, \h20, \h40, \h60}
        /\ rom.mode = 1 =>
               /\ rom.rom_bank = rom.rom_bank_low
               /\ rom.ram_bank = rom.rom_bank_high

\* with the upper latch at 1 in mode 0, 0x20 has been written to the ROM
\* bank register and bank 0x21 is selected
C16_Witness ==
    /\ rom.kind = "MBC1" /\ rom.mode = 0
    /\ last.op = "write" /\ last.addr = \h2000 /\ last.value = \h20
    /\ rom.rom_bank_high = 1 /\ rom.rom_bank_low = 1
    /\ rom.rom_bank = \h21

\* C17: with an MBC1 cartridge, a read of 0x4000+k returns the image byte
\* at offset rom_bank*0x4000+k and a read of k < 0x4000 returns image byte
\* k, where the image has such a byte; no write to 0x0000-0x7FFF changes
\* the image.
C17_BankedRead ==
    [][/\ (last'.op = "read" /\ rom.kind = "MBC1" /\ last'.addr \in \h4000 .. \h7FFF
              /\ rom.rom_bank * \h4000 + (last'.addr - \h4000) < rom.img.len)
          => /\ last'.err = "none"
             /\ last'.val = ImageByte(rom.img,
                                     rom.rom_bank * \h4000 + (last'.addr - \h4000))
       /\ (last'.op = "read" /\ rom.kind = "MBC1" /\ last'.addr < \h4000
              /\ last'.addr < rom.img.len)
          => /\ last'.err = "none"
             /\ last'.val = ImageByte(rom.img, last'.addr)
       /\ (last'.op = "write" /\ rom.kind = "MBC1")
          => rom'.img = rom.img /\ rom'.kind = rom.kind]_vars

\* on a 128 KiB MBC1 image with bank 3 selected, a read of 0x4000 has
\* returned the byte at file offset 0xC000
C17_Witness ==
    /\ rom.kind = "MBC1" /\ rom.img.len = \h20000
    /\ rom.rom_bank = 3
    /\ last.op = "read" /\ last.addr = \h4000
    /\ last.err = "none" /\ last.val = ImageByte(rom.img, \hC000)
    /\ last.val # ImageByte(rom.img, \h4000)

\* C18: with a ROM image load_rom has accepted, a read of an address in
\* 0x0000-0x7FFF raises no error and returns a byte, 0xFF when the offset
\* read lies beyond the end of the image.
C18_ReadRomTotal ==
    [][(last'.op = "read" /\ rom.kind # "none")
       => /\ last'.err = "none"
          /\ last'.val \in 0 .. 255
          /\ (IF last'.addr < \h4000 THEN last'.addr
              ELSE rom.rom_bank * \h4000 + (last'.addr - \h4000)) >= rom.img.len
                 => last'.val = \hFF]_vars

\* C19: Emulator.load_rom of an image shorter than 0x150 bytes, or whose
\* cartridge type is no supported MBC type, or whose RAM size code is
\* outside 0..5, fails, and leaves the loaded flag, the bank controller and
\* the IO registers as they were.
C19_InvalidRom ==
    [][(/\ last'.op = "load_rom"
        /\ \/ last'.img.len < \h150
           \/ last'.img.cart_type \notin MbcTypes
           \/ last'.img.ram_code \notin 0 .. 5)
       => /\ ~last'.ret
          /\ emu'.rom_loaded = emu.rom_loaded
          /\ rom' = rom
          /\ mem'.io = mem.io]_vars

----------------------------------------------------------------------------
(* Properties of the joypad interrupt, under Spec.                         *)

\* C23: Emulator.press_button sets bit 4 of IF when the button goes from
\* released to pressed, and leaves IF as it was when the button was already
\* held down; Emulator.release_button leaves IF as it was.
C23_PressedEdge ==
    [][/\ (last'.op = "press_button" /\ mem'.joypad_state # mem.joypad_state)
          => Bit(mem'.io[\h0F], 4) = 1
       /\ (last'.op = "press_button" /\ mem'.joypad_state = mem.joypad_state)
          => mem'.io[\h0F] = mem.io[\h0F]
       /\ last'.op = "release_button" => mem'.io[\h0F] = mem.io[\h0F]]_vars

----------------------------------------------------------------------------
(* Properties of Memory.read and Memory.write, under SpecMem.              *)

\* C22: every read of 0xFF00, whatever select value was written and
\* whatever the joypad state, returns a byte with bits 7 and 6 set.
C22_JoypadHighBits ==
    (last.op = "read" /\ last.addr = \hFF00)
    => Bit(last.val, 7) = 1 /\ Bit(last.val, 6) = 1

\* C34: a read of 0xFF00 has in bit i of its low nibble a 0 exactly when a
\* selected group holds a pressed button there: button 4 + i (Right, Left,
\* Up, Down) with select bit 4 clear, button i (A, B, Select, Start) with
\* select bit 5 clear; with neither group selected the nibble is 0xF.  A
\* write to 0xFF00 sets the select bits to bits 4-5 of the value and leaves
\* the button state as it was.
C34_JoypadNibble ==
    [][/\ (last'.op = "read" /\ last'.addr = \hFF00)
          => /\ \A i \in 0 .. 3 :
                   Bit(last'.val, i) = 0
                   <=> \/ Bit(mem.joypad_select, 4) = 0 /\ (4 + i) \in hist.pressed
                       \/ Bit(mem.joypad_select, 5) = 0 /\ i \in hist.pressed
             /\ (Bit(mem.joypad_select, 4) = 1 /\ Bit(mem.joypad_select, 5) = 1)
                => last'.val % 16 = \h0F
       /\ (last'.op = "write" /\ last'.addr = \hFF00)
          => /\ mem'.joypad_state = mem.joypad_state
             /\ mem'.joypad_select = ((last'.value \div 16) % 4) * 16]_vars

\* Down is held and the direction keys are selected: the nibble read is 0x7
C34_Witness ==
    /\ last.op = "read" /\ last.addr = \hFF00
    /\ hist.pressed = {7}
    /\ Bit(mem.joypad_select, 4) = 0 /\ Bit(mem.joypad_select, 5) = 1
    /\ last.val % 16 = \h07

\* what a step leaves in a bank select, a write of value to address reg
\* choosing bank
BankAfter(old, reg, bank) ==
    IF last'.op = "write" /\ last'.addr = reg THEN bank ELSE old

\* C35: the WRAM bank is in 1..7 and the VRAM bank in 0..1 in every state;
\* in GBC mode a write to 0xFF70 selects the bank of the value's low three
\* bits, bank 1 when they are 0, a write to 0xFF4F selects the bank of the
\* value's bit 0, and nothing else changes either; in DMG mode the WRAM
\* bank is 1 and the VRAM bank 0 whatever is written.
C35_Banks ==
    [][/\ mem.wram_bank \in 1 .. 7 /\ mem'.wram_bank \in 1 .. 7
       /\ mem.vram_bank \in 0 .. 1 /\ mem'.vram_bank \in 0 .. 1
       /\ ~mem.cgb_mode
          => /\ mem.wram_bank = 1 /\ mem'.wram_bank = 1
             /\ mem.vram_bank = 0 /\ mem'.vram_bank = 0
       /\ mem.cgb_mode
          => /\ mem'.wram_bank =
                    BankAfter(mem.wram_bank, \hFF70,
                              IF last'.value % 8 = 0 THEN 1 ELSE last'.value % 8)
             /\ mem'.vram_bank =
                    BankAfter(mem.vram_bank, \hFF4F, last'.value % 2)]_vars

\* in GBC mode, with VRAM bank 1 selected, 0x08 has been written to 0xFF70:
\* WRAM bank 1 is mapped
C35_Witness ==
    /\ mem.cgb_mode
    /\ last.op = "write" /\ last.addr = \hFF70 /\ last.value = \h08
    /\ mem.wram_bank = 1 /\ mem.vram_bank = 1

\* C24: a byte written to an address in VRAM, WRAM, OAM or HRAM is read
\* back at that address while the bank selection stays; a byte written to
\* 0xE000-0xFDFF is read back 0x2000 lower and a byte written to
\* 0xC000-0xDDFF is read back 0x2000 higher.
C24_WriteThenRead ==
    [][last'.op = "write"
       => /\ (\/ last'.addr \in \h8000 .. \h9FFF
              \/ last'.addr \in \hC000 .. \hDFFF
              \/ last'.addr \in \hFE00 .. \hFE9F
              \/ last'.addr \in \hFF80 .. \hFFFE)
             => MemRead(mem', rom', last'.addr) = Got(last'.value)
          /\ last'.addr \in \hE000 .. \hFDFF
             => MemRead(mem', rom', last'.addr - \h2000) = Got(last'.value)
          /\ last'.addr \in \hC000 .. \hDDFF
             => MemRead(mem', rom', last'.addr + \h2000) = Got(last'.value)]_vars

\* a byte has been written through the echo area with WRAM bank 2 selected
\* and stands in that bank
C24_Witness ==
    /\ last.op = "write" /\ last.addr = \hFDFF
    /\ mem.wram_bank = 2
    /\ WramGet(mem.wram, 2, \hDFF) = last.value
    /\ WramGet(mem.wram, 1, \hDFF) = 0

\* C25: Memory.read of any integer address returns a value in 0..255
\* without raising; a read of 0xFEA0-0xFEFF returns 0xFF and a write there
\* changes nothing.
C25_ReadTotal ==
    [][/\ last'.op = "read"
          => /\ last'.err = "none"
             /\ last'.val \in 0 .. 255
             /\ (last'.addr % 65536) \in \hFEA0 .. \hFEFF => last'.val = \hFF
       /\ (last'.op = "write" /\ last'.addr \in \hFEA0 .. \hFEFF)
          => mem' = mem /\ rom' = rom]_vars

----------------------------------------------------------------------------
(* Properties of the MBC3 clock registers, under SpecRtc.                  *)

\* RAM is enabled and an RTC register is selected
RtcSelected(c) == c.ram_enabled /\ c.ram_rtc_select \in \h08 .. \h0C

\* C30: with RAM enabled and an RTC register selected, a read of
\* 0xA000-0xBFFF returns the latched copy of that register; a write to
\* 0xA000-0xBFFF changes the live register only, so that the reads stay as
\* they were; the latched copies change at no write other than a write of
\* 0x01 to 0x6000-0x7FFF, and a write of 0x01 there that follows a write of
\* 0x00 there makes them equal to the live registers, the value written
\* among them.
C30_RtcLatched ==
    [][/\ (last'.op = "read" /\ RtcSelected(rom))
          => /\ last'.err = "none"
             /\ last'.val = rom.rtc_latched[rom.ram_rtc_select - \h08]
       /\ (last'.op = "write" /\ last'.addr \in \hA000 .. \hBFFF /\ RtcSelected(rom))
          => /\ rom'.rtc_registers[rom.ram_rtc_select - \h08] = last'.value
             /\ rom'.rtc_latched = rom.rtc_latched
             /\ \A a \in RtcReads : MemRead(mem', rom', a) = MemRead(mem, rom, a)
       /\ rom'.rtc_latched # rom.rtc_latched
          => /\ last'.op = "write" /\ last'.addr \in \h6000 .. \h7FFF
             /\ last'.value = \h01
       /\ (/\ last'.op = "write" /\ last'.addr \in \h6000 .. \h7FFF
           /\ last'.value = \h01 /\ hist.latch = \h00)
          => rom'.rtc_latched = rom.rtc_registers]_vars

\* a byte written to the live seconds register has been latched and read
C30_Witness ==
    /\ last.op = "read" /\ last.val = \h3B
    /\ rom.ram_rtc_select = \h08
    /\ rom.rtc_registers[0] = \h3B
    /\ rom.rtc_latched[0] = \h3B
    /\ hist.latch = \h01

----------------------------------------------------------------------------
(* Properties of the PPU's mode machine and window counter, under SpecPpu. *)

\* C21: a read of 0xFF44 returns the PPU's current scanline, whatever has
\* been written to 0xFF44.
C21_LyReadOnly == ReadRam(mem, \hFF44) = ppu.ly

\* the cycle at which a mode starts within its line
ModeStart(mode) ==
    IF mode = MODE_TRANSFER THEN CYCLES_OAM
    ELSE IF mode = MODE_HBLANK THEN CYCLES_OAM + CYCLES_TRANSFER
    ELSE 0

\* C28: with the LCD enabled, after t cycles passed to PPU.step in whatever
\* portions, the PPU stands t mod 70224 cycles into the frame, the lines
\* being 456 cycles long and a visible line made of 80 cycles of OAM scan,
\* 172 of Transfer and 204 of H-Blank; LY is in 0..153 and the mode is
\* V-Blank exactly when LY >= 144.
C28_Timing ==
    /\ ppu.ly \in 0 .. SCANLINES_TOTAL - 1
    /\ ppu.mode = MODE_VBLANK <=> ppu.ly >= SCANLINES_VISIBLE
    /\ ppu.cycles \in 0 .. ModeCycles(ppu) - 1
    /\ ppu.ly * CYCLES_SCANLINE + ModeStart(ppu.mode) + ppu.cycles
       = hist.t % CYCLES_PER_FRAME

\* a frame and four cycles have passed in portions of different lengths
C28_Witness ==
    /\ hist.t = CYCLES_PER_FRAME + 4
    /\ hist.steps > 0
    /\ ppu.ly = 0 /\ ppu.mode = MODE_OAM /\ ppu.cycles = 4
    /\ ppu.frame_count = 1

\* the visible lines whose Transfer ends in the cycles from..to of a frame
LinesRendered(from, to) ==
    {l \in 0 .. SCANLINES_VISIBLE - 1 :
        /\ from < l * CYCLES_SCANLINE + CYCLES_OAM + CYCLES_TRANSFER
        /\ l * CYCLES_SCANLINE + CYCLES_OAM + CYCLES_TRANSFER <= to}

\* the window counter after a PPU.step(c) entered t cycles into the frame
\* with the counter at wl, when the lines of Drawn are those on which
\* window pixels are drawn
WindowLineAfter(wl, t, c, Drawn) ==
    IF t + c >= CYCLES_PER_FRAME
    THEN Cardinality(LinesRendered(t - CYCLES_PER_FRAME, t + c - CYCLES_PER_FRAME)
                     \cap Drawn)
    ELSE wl + Cardinality(LinesRendered(t, t + c) \cap Drawn)

\* the lines on which the window is drawn: window enabled (LCDC bit 5),
\* WX <= 166, WY <= 143 and LY >= WY
WindowLines(m) ==
    {l \in 0 .. SCANLINES_VISIBLE - 1 :
        /\ And(m.io[\h40], \h20) # 0
        /\ m.io[\h4B] <= 166 /\ m.io[\h4A] <= 143
        /\ l >= m.io[\h4A]}

\* C27 as stated: window_line grows by exactly 1 on each scanline rendered
\* with the window enabled, WX <= 166, WY <= 143 and LY >= WY, and is
\* unchanged on every other scanline of a frame.
C27_WindowLine ==
    [][last'.op = "ppu_step"
       => ppu'.window_line =
              WindowLineAfter(ppu.window_line, hist.t % CYCLES_PER_FRAME,
                              last'.cycles, WindowLines(mem))]_vars

\* the lines on which the window is drawn: those of WindowLines, on the DMG
\* only while LCDC bit 0 is set
WindowLinesDrawn(m) ==
    IF And(m.io[\h40], \h01) # 0 \/ m.cgb_mode THEN WindowLines(m) ELSE {}

\* C27: window_line grows by exactly 1 on each scanline rendered with the
\* window enabled, WX <= 166, WY <= 143 and LY >= WY and, outside GBC mode,
\* LCDC bit 0 set, and is unchanged on every other scanline of a frame.
C27_WindowLineDrawn ==
    [][last'.op = "ppu_step"
       => ppu'.window_line =
              WindowLineAfter(ppu.window_line, hist.t % CYCLES_PER_FRAME,
                              last'.cycles, WindowLinesDrawn(mem))]_vars

\* WY was moved to 2 after two lines of window were drawn, and a third line
\* has been drawn since: the counter is not LY - WY
C27_Witness ==
    /\ last.op = "ppu_step" /\ hist.writes = 1
    /\ mem.io[\h4A] = 2
    /\ ppu.ly = 3 /\ ppu.window_line = 3
    /\ ppu.window_line # ppu.ly - mem.io[\h4A]

\* C29 as stated: window_line is 0 in every state in which the mode is
\* V-Blank and at the start of every frame.
C29_ZeroInVBlank ==
    (ppu.mode = MODE_VBLANK \/ (ppu.ly = 0 /\ ppu.mode # MODE_HBLANK))
    => ppu.window_line = 0

\* C29: window_line is reset to 0 when the PPU leaves V-Blank (LY goes from
\* 153 to 0): it is 0 at the start of every frame, until the Transfer of
\* line 0 has ended, and it gets smaller at no step other than one that
\* takes LY back.
C29_ZeroAtFrameStart ==
    [][/\ (ppu'.ly = 0 /\ ppu'.mode # MODE_HBLANK) => ppu'.window_line = 0
       /\ ppu'.window_line < ppu.window_line => ppu'.ly < ppu.ly]_vars

\* a second frame has started after a frame whose 144 lines all drew the
\* window
C29_Witness ==
    /\ ppu.frame_count = 1 /\ ppu.ly = 0 /\ ppu.mode = MODE_OAM
    /\ ppu.window_line = 0
    /\ hist.writes = 0 /\ WindowLinesDrawn(mem) = 0 .. SCANLINES_VISIBLE - 1

----------------------------------------------------------------------------
(* Properties of the sprite search, under SpecScan. *)

\* the OAM entries whose rows [Y - 16, Y - 16 + height) contain line ly
SpritesOnLine(m, ly) ==
    {i \in 0 .. 39 :
        /\ OamGet(m.oam, i * 4) - 16 <= ly
        /\ ly < OamGet(m.oam, i * 4) - 16 + SpriteHeight(m)}

\* the first ten of them by OAM index
SpritesChosen(m, ly) ==
    {i \in SpritesOnLine(m, ly) :
        Cardinality({j \in SpritesOnLine(m, ly) : j < i}) < 10}

\* C26: after an OAM scan (in Transfer and H-Blank of the line) the sprite
\* buffer holds at most 10 entries, those of the first up to 10 OAM entries
\* by index whose rows [Y - 16, Y - 16 + height) contain LY, in the order of
\* the OAM index in GBC mode and of (X, OAM index) on the DMG; an entry with
\* Y = 0 is in the buffer on no line and one with Y = 16 is selected at
\* LY = 0.
C26_SpriteScan ==
    ppu.mode \in {MODE_TRANSFER, MODE_HBLANK}
    => LET b == ppu.sprite_buffer
       IN  /\ Len(b) <= 10
           /\ Len(b) = Cardinality(SpritesChosen(mem, ppu.ly))
           /\ {b[k].oam_idx : k \in 1 .. Len(b)} = SpritesChosen(mem, ppu.ly)
           /\ \A k \in 1 .. Len(b) :
                /\ b[k].y = OamGet(mem.oam, b[k].oam_idx * 4) - 16
                /\ b[k].x = OamGet(mem.oam, b[k].oam_idx * 4 + 1) - 8
                /\ b[k].tile = OamGet(mem.oam, b[k].oam_idx * 4 + 2)
                /\ b[k].attr = OamGet(mem.oam, b[k].oam_idx * 4 + 3)
                /\ OamGet(mem.oam, b[k].oam_idx * 4) # 0
           /\ \A k \in 1 .. Len(b), l \in 1 .. Len(b) :
                k < l =>
                    IF mem.cgb_mode THEN b[k].oam_idx < b[l].oam_idx
                    ELSE \/ b[k].x < b[l].x
                         \/ b[k].x = b[l].x /\ b[k].oam_idx < b[l].oam_idx
           /\ ppu.ly = 0
              => \A i \in 0 .. 39 :
                    (OamGet(mem.oam, i * 4) = 16 /\ i \in SpritesChosen(mem, 0))
                    => \E k \in 1 .. Len(b) : b[k].oam_idx = i

\* a DMG line with more than ten sprites on it: the buffer holds the first
\* ten by index, in the order of their X
C26_Witness ==
    /\ ppu.mode = MODE_TRANSFER /\ ~mem.cgb_mode
    /\ Cardinality(SpritesOnLine(mem, ppu.ly)) > 10
    /\ Len(ppu.sprite_buffer) = 10
    /\ ppu.sprite_buffer[1].oam_idx = 2
    /\ ppu.sprite_buffer[3].oam_idx = 1
    /\ ppu.sprite_buffer[4].oam_idx = 10

----------------------------------------------------------------------------
(* Properties of the cartridge RAM, under SpecRam. *)

\* the banked offset of address addr of the RAM window
RamOffset(c, addr) == c.ram_bank * \h2000 + (addr - \hA000)

\* what the text says of a read or write of 0xA000-0xBFFF made with the
\* RAM-enable latch at enabled
RamGated(enabled) ==
    /\ (last'.op = "read" /\ ~enabled) => last'.val = \hFF
    /\ (last'.op = "write" /\ last'.addr \in \hA000 .. \hBFFF /\ ~enabled)
       => rom'.ram = rom.ram
    /\ (last'.op = "read" /\ enabled /\ RamOffset(rom, last'.addr) >= rom.ram_len
        /\ rom.kind # "MBC2" /\ ~RtcSelected(rom))
       => last'.val = \hFF
    /\ (last'.op = "write" /\ last'.addr \in \hA000 .. \hBFFF /\ enabled
        /\ RamOffset(rom, last'.addr) >= rom.ram_len /\ rom.kind # "MBC2")
       => rom'.ram = rom.ram

\* C31 as stated: with the latch clear (the last write to 0x0000-0x1FFF did
\* not have the low nibble 0x0A, or there was none) a read of 0xA000-0xBFFF
\* returns 0xFF and a write there leaves the cartridge RAM unchanged; with
\* it set, a read at a banked offset beyond the RAM returns 0xFF and a write
\* there leaves the RAM unchanged.
C31_RamGated == [][RamGated(hist.enable)]_vars

\* the address decoding of the RAM-enable latch of each controller
EnableWrite(c, addr) ==
    CASE c.kind \in {"MBC1", "MBC3", "MBC5"} -> addr < \h2000
      [] c.kind = "MBC2" -> addr < \h4000 /\ (addr \div 256) % 2 = 0
      [] OTHER -> FALSE

\* C31: with ram_enabled clear a read of 0xA000-0xBFFF returns 0xFF and a
\* write there leaves the cartridge RAM and the clock registers unchanged;
\* with it set, a read at a banked offset beyond the RAM returns 0xFF and a
\* write there leaves the RAM unchanged.  ram_enabled is what the last
\* write to the controller's enable addresses left: value & 0x0F == 0x0A of
\* a write to 0x0000-0x1FFF on MBC1, MBC3 and MBC5, to 0x0000-0x3FFF with
\* address bit 8 clear on MBC2; without a controller it is never set.
C31_RamEnabled ==
    [][/\ RamGated(rom.ram_enabled)
       /\ (last'.op = "write" /\ ~rom.ram_enabled)
          => rom'.rtc_registers = rom.rtc_registers
       /\ last'.op = "write"
          => rom'.ram_enabled =
                 IF EnableWrite(rom, last'.addr) THEN last'.value % 16 = \h0A
                 ELSE rom.ram_enabled]_vars

\* a byte was stored in the RAM, the latch was cleared, and a read of the
\* byte's address returned 0xFF
C31_Witness ==
    /\ last.op = "read" /\ last.addr = \hA000 /\ last.val = \hFF
    /\ ~rom.ram_enabled /\ ~hist.enable
    /\ RamGet(rom.ram, 0) = \h5A

----------------------------------------------------------------------------
(* Properties of STOP and the speed switch, under SpecSpeed. *)

\* C32: a CPU.step that executes STOP leaves PC two past the opcode; with
\* KEY1 (0xFF4D) bit 0 set it toggles double_speed, leaves KEY1 bit 0 clear
\* and does not stop the CPU, and with the bit clear it stops the CPU and
\* leaves the speed as it was.
C32_StopSpeedSwitch ==
    [][(last'.op = "cpu_step" /\ last'.opcode = \h10)
       => /\ last'.err = "none"
          /\ cpu'.pc = (last'.at + 2) % 65536
          /\ IF ReadRam(mem, \hFF4D) % 2 = 1
             THEN /\ cpu'.double_speed = ~cpu.double_speed
                  /\ ReadRam(mem', \hFF4D) % 2 = 0
                  /\ ~cpu'.stopped
             ELSE /\ cpu'.stopped
                  /\ cpu'.double_speed = cpu.double_speed]_vars

\* a STOP executed with the switch armed at normal speed: the CPU runs at
\* double speed, is not stopped, and KEY1 reads 0x80
C32_Witness ==
    /\ last.op = "cpu_step" /\ last.opcode = \h10 /\ last.at = EntryPc
    /\ cpu.double_speed /\ ~cpu.stopped
    /\ ReadRam(mem, \hFF4D) = \h80
    /\ cpu.pc = EntryPc + 2

----------------------------------------------------------------------------
(* Properties of the BCD adjustment, under SpecBcd. *)

\* the number a packed-BCD byte encodes, and the byte encoding a number
BcdValue(v) == (v \div 16) * 10 + (v % 16)
BcdOf(n) == (n \div 10) * 16 + (n % 10)

\* C33: a DAA executed after the ADD A,b the run started with, A = a and b
\* packed-BCD bytes, leaves A the packed-BCD byte of (a + b) mod 100, C set
\* exactly when a + b >= 100, H and N clear and Z set exactly when A is 0.
C33_AddDaa ==
    [][(last'.op = "cpu_step" /\ last'.opcode = \h27
        /\ last.op = "cpu_step" /\ last.opcode = \hC6 /\ last.at = EntryPc)
       => /\ cpu'.a = BcdOf((BcdValue(hist.a0) + BcdValue(hist.b0)) % 100)
          /\ GetFlag(cpu', FLAG_C) <=> BcdValue(hist.a0) + BcdValue(hist.b0) >= 100
          /\ ~GetFlag(cpu', FLAG_H)
          /\ ~GetFlag(cpu', FLAG_N)
          /\ GetFlag(cpu', FLAG_Z) <=> cpu'.a = 0
          /\ cpu'.f % 16 = 0]_vars

\* 0x45 + 0x38 adjusted: A = 0x83 with no flag set
C33_Witness ==
    /\ last.op = "cpu_step" /\ last.opcode = \h27 /\ last.at = EntryPc + 2
    /\ hist.a0 = \h45 /\ hist.b0 = \h38
    /\ cpu.a = \h83 /\ cpu.f = 0

----------------------------------------------------------------------------
(* Properties of HALT with the V-Blank interrupt enabled, under SpecHalt. *)

\* C40: a CPU halted with the LCD on and IE bit 0 set has been halted for
\* at most 70224 cycles of Emulator.step calls in any state; the step that
\* ends the HALT finds IF bit 0 set by the PPU; and a CPU that is halted
\* (with a frame's cycles left of the run) is not halted at some later
\* step.
C40_HaltEnds ==
    /\ [][/\ cpu'.halted => hist'.since <= CYCLES_PER_FRAME
          /\ (cpu.halted /\ ~cpu'.halted)
             => /\ Bit(mem.io[\h0F], 0) = 1
                /\ hist.vblanks > 0
                /\ hist.since <= CYCLES_PER_FRAME]_vars
    /\ (/\ cpu.halted /\ LcdEnabled(mem) /\ Bit(mem.ie, 0) = 1
        /\ emu.frame_cycles + CYCLES_PER_FRAME < MaxHaltCycles)
       ~> ~cpu.halted

\* the CPU has left a HALT that lasted from the interrupt routine of one
\* V-Blank to the next
C40_Witness ==
    /\ ~cpu.halted /\ last.op = "emu_step"
    /\ hist.vblanks = 2
    /\ hist.slept > CYCLES_PER_FRAME - CYCLES_SCANLINE
    /\ hist.slept <= CYCLES_PER_FRAME

====
